---- MODULE Spec2Model ----
(***************************************************************************)
(* Managed Python installations and virtual-environment provisioning.     *)
(*                                                                         *)
(*   Spec        the registry (install, upgrade, per-minor anchor), the    *)
(*               venv builder run as one operation, and a lock-free reader *)
(*   SpecCreate  the venv builder, one filesystem operation per step       *)
(*   SpecFetch   PythonInstallation::fetch, run by concurrent processes    *)
(*   SpecFind    PythonInstallation::find_or_download                      *)
(***************************************************************************)
EXTENDS Integers, Sequences, FiniteSets, TLC

VARIABLES
    installed,  \* registry: the patch directories <<minor, patch>> under the root
    anchor,     \* registry: per-minor anchor link, minor -> patch (0: no link)
    tmpLink,    \* registry: temporary link made while an anchor is replaced
    catalog,    \* newest patch the download catalog knows, per minor
    up,         \* the upgrade command in progress
    fs,         \* the venv target directory: entry name -> content
    cr,         \* the venv builder's call frame (create)
    rootDirs,   \* fetch: which of the root and scratch directories exist
    entries,    \* fetch: state of <root>/<key>, per key
    scratch,    \* fetch: state of each process's scratch directory
    lock,       \* fetch: holder of the per-root file lock (0: free)
    fp,         \* fetch: per-process call frame
    pin,        \* the version the project's pin file names (Broken: no pin)
    cmd,        \* the last `python upgrade` command, and its outcome
    nm,         \* normalize: a name and the results of the functions on it
    ky,         \* installation keys: the inputs and the results of the key functions
    fd          \* find_or_download: call frame

registryVars == <<installed, anchor, tmpLink, catalog, up>>
venvVars     == <<fs, cr>>
fetchVars    == <<rootDirs, entries, scratch, lock, fp>>
findVars     == <<fd>>
commandVars  == <<pin, cmd>>
nameVars     == <<nm>>
keyVars      == <<ky>>
vars == <<installed, anchor, tmpLink, catalog, up, fs, cr,
          rootDirs, entries, scratch, lock, fp, fd, pin, cmd, nm, ky>>

----------------------------------------------------------------------------
(* Bounds *)

MaxPatch == 3
\* How many times create is called on one target.
MaxCreates == 2
\* How many processes call fetch on the same installations root.
NumProcs == 2
\* The longest name given to the normalizer, in bytes.
MaxNameLen == 4

\* The minors of the scenarios (one implementation, one platform, the default
\* variant), and the patches of each.
Minors == { "3.10", "3.11" }
Patches == 1..MaxPatch

----------------------------------------------------------------------------
(* Paths.  A path is the directory it starts from and the components below *)
(* it; a registry directory is a patch directory (named by the full key)   *)
(* or the per-minor anchor (named without the patch).                      *)

NoDir == [kind |-> "none", minor |-> "none", patch |-> 0]
PatchDir(m, p) == [kind |-> "patch", minor |-> m, patch |-> p]
LinkDir(m) == [kind |-> "link", minor |-> m, patch |-> 0]
SysDir(m) == [kind |-> "usr", minor |-> m, patch |-> 0]

NoPath == [base |-> "none", dir |-> NoDir, tail |-> <<>>]
RegistryPath(d, t) == [base |-> "registry", dir |-> d, tail |-> t]
SystemPath(d, t) == [base |-> "system", dir |-> d, tail |-> t]
RelPath(t) == [base |-> "rel", dir |-> NoDir, tail |-> t]

\* Path::parent: None for a path with no component left.
HasParent(path) == Len(path.tail) > 0
Parent(path) == [path EXCEPT !.tail = SubSeq(path.tail, 1, Len(path.tail) - 1)]

----------------------------------------------------------------------------
(* Interpreters, as the introspection oracle reports them.                 *)

PatchExe(m, p) == RegistryPath(PatchDir(m, p), <<"bin", "python">>)
AnchorExe(m) == RegistryPath(LinkDir(m), <<"bin", "python">>)

ManagedInterpreter(m, p) ==
    [managed |-> TRUE, standalone |-> TRUE, implementation |-> "cpython",
     minor |-> m, patch |-> p, base_executable |-> PatchExe(m, p),
     lib64 |-> TRUE]

SystemInterpreter(impl, standalone, lib64) ==
    [managed |-> FALSE, standalone |-> standalone, implementation |-> impl,
     minor |-> "3.10", patch |-> 1,
     base_executable |-> SystemPath(SysDir("3.10"), <<"bin", "python">>),
     lib64 |-> lib64]

SystemInterpreters ==
    { SystemInterpreter("cpython", FALSE, TRUE),
      SystemInterpreter("cpython", TRUE, FALSE),
      SystemInterpreter("pypy", FALSE, TRUE),
      SystemInterpreter("graalpy", FALSE, TRUE) }

\* The interpreters discovery can hand to the venv builder in this state.
Interpreters ==
    { ManagedInterpreter(k[1], k[2]) : k \in installed } \cup SystemInterpreters

\* markers().platform_python_implementation()
PlatformPythonImplementation(interp) ==
    CASE interp.implementation = "cpython" -> "CPython"
      [] interp.implementation = "pypy" -> "PyPy"
      [] OTHER -> "GraalVM"

----------------------------------------------------------------------------
(* The registry's anchor layer.                                            *)

Broken == << "none", 0 >>

\* The patch directory a registry directory name leads to, following the
\* anchor link when the name is an anchor; Broken when nothing is there.
ResolveDir(d) ==
    CASE d.kind = "patch" ->
            IF <<d.minor, d.patch>> \in installed THEN <<d.minor, d.patch>> ELSE Broken
      [] d.kind = "link" ->
            IF anchor[d.minor] # 0 /\ <<d.minor, anchor[d.minor]>> \in installed
            THEN <<d.minor, anchor[d.minor]>> ELSE Broken
      [] OTHER -> Broken

\* Interpreter::symlink_path_from_base_python: the same executable, reached
\* through the per-minor anchor of its installation instead of through the
\* patch directory.
SymlinkPathFromBasePython(base_python) ==
    IF /\ base_python.base = "registry"
       /\ base_python.dir.kind = "patch"
       /\ anchor[base_python.dir.minor] # 0
    THEN [base_python EXCEPT !.dir = LinkDir(base_python.dir.minor)]
    ELSE base_python

\* Interpreter::find_base_python and Interpreter::to_base_python: the base
\* executable the oracle reports.
FindBasePython(interp) == interp.base_executable
ToBasePython(interp) == interp.base_executable

\* The managed interpreters discovery finds for a request: those of the
\* requested minor, and of the requested patch if the request names one
\* (patch 0: a request for the minor only).
Discover(request) ==
    { ManagedInterpreter(k[1], k[2]) :
        k \in { i \in installed : i[1] = request.minor
                                 /\ (request.patch = 0 \/ i[2] = request.patch) } }

\* The interpreter discovery finds through a venv built on the anchor of a
\* minor: the patch the anchor leads to, its base executable reported under
\* the anchor.
ThroughVenv(m) ==
    [ManagedInterpreter(m, anchor[m]) EXCEPT !.base_executable = AnchorExe(m)]

\* The interpreters discovery can find through a venv.
VenvInterpreters ==
    { ThroughVenv(m) : m \in { n \in Minors : ResolveDir(LinkDir(n)) # Broken } }

InstalledPatches(m) == { p \in Patches : <<m, p>> \in installed }
Newest(m) == CHOOSE p \in InstalledPatches(m) : \A q \in InstalledPatches(m) : q <= p

\* Faulty variant: the existing link is removed before the new one is made.
ReplaceSymlinkUnlinked(old, new) == 0

\* uv_fs::replace_symlink on an existing link, first half: the new link is
\* created under a temporary name and the link itself is left alone.
ReplaceSymlinkStaged(old, new) == old

----------------------------------------------------------------------------
(* The venv builder: uv-virtualenv, create.                                *)

\* The build target is POSIX: cfg!(unix) holds and cfg!(windows) does not.
Unix == TRUE

ACTIVATE_TEMPLATES ==
    << "activate", "activate.csh", "activate.fish", "activate.nu",
       "activate.ps1", "activate.bat", "deactivate.bat", "pydoc.bat",
       "activate_this.py" >>

\* The names create can write under the target (the target itself is "."),
\* and "other": a file create knows nothing about.
LinkEntries == { "bin/python", "bin/pythonM", "bin/pythonM.m",
                 "bin/pypyM", "bin/pypy", "bin/graalpy" }
ActivateEntries == { ACTIVATE_TEMPLATES[i] : i \in 1..Len(ACTIVATE_TEMPLATES) }
SiteEntries == { "site-packages", "_virtualenv.py", "_virtualenv.pth" }
Entries ==
    { ".", "CACHEDIR.TAG", ".gitignore", "bin", "pyvenv.cfg", "lib64", "other" }
        \cup LinkEntries \cup ActivateEntries \cup SiteEntries

NoCfg == [keys |-> <<>>, home |-> NoPath, implementation |-> "",
          version_info |-> Broken, include_system_site_packages |-> "",
          prompt |-> <<>>]

Absent == [kind |-> "absent", target |-> NoPath, text |-> "", cfg |-> NoCfg]
DirC == [Absent EXCEPT !.kind = "dir"]
FileC(text) == [Absent EXCEPT !.kind = "file", !.text = text]
LinkC(target) == [Absent EXCEPT !.kind = "symlink", !.target = target]
CfgC(cfg) == [Absent EXCEPT !.kind = "file", !.cfg = cfg]

Exists(f, e) == f[e].kind # "absent"
\* Faulty variant: any directory counts as empty.
IsEmptyDirAlways(f) == f["."].kind = "dir"

\* location.read_dir() yields nothing
IsEmptyDir(f) == f["."].kind = "dir" /\ \A e \in Entries \ {"."} : ~Exists(f, e)

\* Faulty variant: any entry makes the directory a venv.
HasPyvenvCfgOrAny(f) == \E e \in Entries \ {"."} : Exists(f, e)

\* location.join("pyvenv.cfg").is_file()
HasPyvenvCfg(f) == f["pyvenv.cfg"].kind = "file"

\* Faulty variant: what create does not write stays.
RemoveDirAllButOther(f) == [e \in Entries |-> IF e = "other" THEN f[e] ELSE Absent]

\* fs::remove_dir_all(location): the directory and everything in it.
RemoveDirAll(f) == [e \in Entries |-> Absent]

PromptKinds == { "CurrentDirectoryName", "Static", "None" }
\* The prompt as an Option<String>: <<>> is None.
PromptValue(prompt) ==
    CASE prompt = "CurrentDirectoryName" -> << "cwd" >>
      [] prompt = "Static" -> << "static" >>
      [] OTHER -> <<>>

IdleFrame ==
    [pc |-> "idle", interpreter |-> SystemInterpreter("cpython", FALSE, TRUE),
     prompt |-> "None", system_site_packages |-> FALSE, allow_existing |-> FALSE,
     relocatable |-> FALSE, seed |-> FALSE,
     base_python |-> NoPath, executable_target |-> NoPath, python_home |-> NoPath,
     i |-> 0, err |-> "none", calls |-> 0]

CallFrame(interpreter, prompt, system_site_packages, allow_existing, relocatable, seed) ==
    [IdleFrame EXCEPT !.pc = "base", !.interpreter = interpreter, !.prompt = prompt,
                      !.system_site_packages = system_site_packages,
                      !.allow_existing = allow_existing,
                      !.relocatable = relocatable, !.seed = seed]

\* The base Python executable of the venv.
BasePython(interpreter) ==
    IF Unix /\ interpreter.standalone
    THEN FindBasePython(interpreter)
    ELSE ToBasePython(interpreter)

\* Faulty variant: the link is bound to the patch directory.
ExecutableTargetPatchDir(interpreter, base_python) == base_python

\* What the venv's `python` link points at.
ExecutableTarget(interpreter, base_python) ==
    IF interpreter.managed
    THEN SymlinkPathFromBasePython(base_python)
    ELSE base_python

\* Faulty variant: `home` is the executable itself.
PythonHomeIsExecutable(executable_target) == executable_target

\* Per PEP 405, the Python `home` is the parent directory of the interpreter.
PythonHome(executable_target) == Parent(executable_target)

\* The {{ VIRTUAL_ENV_DIR }} an activation script gets.
VirtualEnvDir(relocatable, name) ==
    IF relocatable /\ name \in { "activate", "activate.bat", "activate.fish" }
    THEN "resolved-at-activation"
    ELSE "absolute-location"

\* Faulty variant: the key is pushed whatever the condition.
OptAlways(cond, key) == << key >>

\* if cond { pyvenv_cfg_data.push((key, ..)) }
Opt(cond, key) == IF cond THEN << key >> ELSE <<>>

\* Faulty variant: the system site-packages are always included.
IncludeSystemSitePackagesAlways(system_site_packages) == "true"

\* The value of include-system-site-packages.
IncludeSystemSitePackages(system_site_packages) ==
    IF system_site_packages THEN "true" ELSE "false"

\* pyvenv_cfg_data, in the order it is written.
PyvenvCfgData(c) ==
    [keys |-> << "home", "implementation", "uv", "version_info",
                 "include-system-site-packages" >>
                \o Opt(c.relocatable, "relocatable")
                \o Opt(c.seed, "seed")
                \o Opt(PromptValue(c.prompt) # <<>>, "prompt")
                \o Opt(~Unix /\ c.interpreter.implementation = "graalpy",
                       "venvlauncher_command"),
     home |-> c.python_home,
     implementation |-> PlatformPythonImplementation(c.interpreter),
     version_info |-> << c.interpreter.minor, c.interpreter.patch >>,
     include_system_site_packages |-> IncludeSystemSitePackages(c.system_site_packages),
     prompt |-> PromptValue(c.prompt)]

Goto(c, pc) == [c EXCEPT !.pc = pc]
Fail(c, err) == [c EXCEPT !.pc = "failed", !.err = err]
Put(f, e, content) == [f EXCEPT ![e] = content]

\* Faulty variant: an existing lib64 is an error.
SymlinkLib64Strict(c, f) ==
    IF Exists(f, "lib64")
    THEN [c |-> Fail(c, "AlreadyExists"), f |-> f]
    ELSE [c |-> Goto(c, "virtualenv_py"), f |-> Put(f, "lib64", LinkC(RelPath(<<"lib">>)))]

\* symlink("lib", location.join("lib64")): AlreadyExists is tolerated.
SymlinkLib64(c, f) ==
    [c |-> Goto(c, "virtualenv_py"),
     f |-> IF Exists(f, "lib64") THEN f
           ELSE Put(f, "lib64", LinkC(RelPath(<<"lib">>)))]

\* Faulty variant: the aliases point at the executable itself.
AliasTargetBase(c) == c.executable_target

\* What the aliases of `python` in the scripts directory point at: the name
\* "python", relative to the scripts directory.
AliasTarget(c) == RelPath(<<"python">>)

\* Where create goes once the `python` links are made.
AfterPythonLinks(c) ==
    CASE c.interpreter.implementation = "pypy" -> "pypyM"
      [] c.interpreter.implementation = "graalpy" -> "graalpy"
      [] OTHER -> "activate"

\* One step of create that succeeds: the call frame and the target
\* directory after the step at c.pc.
CreateStep(c, f) ==
    CASE c.pc = "base" ->
            [c |-> [Goto(c, "validate") EXCEPT !.base_python = BasePython(c.interpreter)],
             f |-> f]
      [] c.pc = "validate" ->
            IF f["."].kind = "file"
            THEN [c |-> Fail(c, "AlreadyExists"), f |-> f]
            ELSE IF f["."].kind = "dir"
            THEN IF c.allow_existing
                 THEN [c |-> Goto(c, "tag"), f |-> f]
                 ELSE IF HasPyvenvCfg(f)
                 THEN [c |-> Goto(c, "remove_dir_all"), f |-> f]
                 ELSE IF IsEmptyDir(f)
                 THEN [c |-> Goto(c, "tag"), f |-> f]
                 ELSE [c |-> Fail(c, "AlreadyExists"), f |-> f]
            ELSE [c |-> Goto(c, "tag"), f |-> Put(f, ".", DirC)]
      [] c.pc = "remove_dir_all" ->
            [c |-> Goto(c, "create_dir_all"), f |-> RemoveDirAll(f)]
      [] c.pc = "create_dir_all" ->
            [c |-> Goto(c, "tag"), f |-> Put(f, ".", DirC)]
      [] c.pc = "tag" ->
            [c |-> Goto(c, "gitignore"), f |-> Put(f, "CACHEDIR.TAG", FileC("Signature"))]
      [] c.pc = "gitignore" ->
            [c |-> Goto(c, "target"), f |-> Put(f, ".gitignore", FileC("*"))]
      [] c.pc = "target" ->
            LET executable_target == ExecutableTarget(c.interpreter, c.base_python)
            IN  IF HasParent(executable_target)
                THEN [c |-> [Goto(c, "scripts") EXCEPT
                                !.executable_target = executable_target,
                                !.python_home = PythonHome(executable_target)],
                      f |-> f]
                ELSE [c |-> Fail(c, "NotFound"), f |-> f]
      [] c.pc = "scripts" ->
            [c |-> Goto(c, "python"), f |-> Put(f, "bin", DirC)]
      [] c.pc = "python" ->
            [c |-> Goto(c, "pythonM"),
             f |-> Put(f, "bin/python", LinkC(c.executable_target))]
      [] c.pc = "pythonM" ->
            [c |-> Goto(c, "pythonM.m"),
             f |-> Put(f, "bin/pythonM", LinkC(AliasTarget(c)))]
      [] c.pc = "pythonM.m" ->
            [c |-> Goto(c, AfterPythonLinks(c)),
             f |-> Put(f, "bin/pythonM.m", LinkC(AliasTarget(c)))]
      [] c.pc = "pypyM" ->
            [c |-> Goto(c, "pypy"),
             f |-> Put(f, "bin/pypyM", LinkC(AliasTarget(c)))]
      [] c.pc = "pypy" ->
            [c |-> Goto(c, "activate"),
             f |-> Put(f, "bin/pypy", LinkC(AliasTarget(c)))]
      [] c.pc = "graalpy" ->
            [c |-> Goto(c, "activate"),
             f |-> Put(f, "bin/graalpy", LinkC(AliasTarget(c)))]
      [] c.pc = "activate" ->
            LET name == ACTIVATE_TEMPLATES[c.i + 1]
            IN  [c |-> [c EXCEPT !.i = c.i + 1,
                                 !.pc = IF c.i + 1 = Len(ACTIVATE_TEMPLATES)
                                        THEN "cfg_create" ELSE "activate"],
                 f |-> Put(f, name, FileC(VirtualEnvDir(c.relocatable, name)))]
      [] c.pc = "cfg_create" ->
            [c |-> Goto(c, "cfg_write"), f |-> Put(f, "pyvenv.cfg", CfgC(NoCfg))]
      [] c.pc = "cfg_write" ->
            [c |-> Goto(c, "site_packages"),
             f |-> Put(f, "pyvenv.cfg", CfgC(PyvenvCfgData(c)))]
      [] c.pc = "site_packages" ->
            [c |-> Goto(c, IF Unix /\ c.interpreter.lib64 THEN "lib64" ELSE "virtualenv_py"),
             f |-> Put(f, "site-packages", DirC)]
      [] c.pc = "lib64" -> SymlinkLib64(c, f)
      [] c.pc = "virtualenv_py" ->
            [c |-> Goto(c, "virtualenv_pth"),
             f |-> Put(f, "_virtualenv.py", FileC("VIRTUALENV_PATCH"))]
      [] c.pc = "virtualenv_pth" ->
            [c |-> Goto(c, "done"),
             f |-> Put(f, "_virtualenv.pth", FileC("import _virtualenv"))]
      [] OTHER -> [c |-> c, f |-> f]

Returned(c) == c.pc \in { "idle", "done", "failed" }

\* create run to its return with every filesystem operation succeeding.
RECURSIVE RunCreate(_, _)
RunCreate(c, f) ==
    IF Returned(c) THEN [c |-> c, f |-> f]
    ELSE LET s == CreateStep(c, f) IN RunCreate(s.c, s.f)

----------------------------------------------------------------------------
(* Spec: the registry under install and upgrade, venvs built on it, and a  *)
(* reader that takes no lock.                                              *)

NoUpgrade == [pc |-> "idle", minor |-> "none", old |-> 0, target |-> 0]

InitRegistry ==
    /\ installed = {}
    /\ anchor = [m \in Minors |-> 0]
    /\ tmpLink = [m \in Minors |-> 0]
    /\ catalog = [m \in Minors |-> 1]
    /\ up = NoUpgrade

\* The target path before create is called: nothing, a regular file, an
\* empty directory, or a directory holding a file that is not a venv's.
InitialTargets ==
    { [e \in Entries |-> Absent],
      [[e \in Entries |-> Absent] EXCEPT !["."] = FileC("")],
      [[e \in Entries |-> Absent] EXCEPT !["."] = DirC],
      [[e \in Entries |-> Absent] EXCEPT !["."] = DirC, !["other"] = FileC("")] }

InitVenv ==
    /\ fs \in InitialTargets
    /\ cr = IdleFrame

\* No venv is being built.
InitNoVenv ==
    /\ fs = [e \in Entries |-> Absent]
    /\ cr = IdleFrame

Procs == 1..NumProcs

\* The keys the processes ask for.
RequestKeys == { << "3.10", 1 >>, << "3.11", 1 >> }

NoEntry == [state |-> "absent", marks |-> {}]

NoFetch ==
    [pc |-> "idle", key |-> Broken, path |-> "none", h |-> 0, hooks |-> <<>>,
     failed |-> {}, unlocked |-> {}, locked |-> {}, result |-> "none", err |-> "none"]

InitFetch ==
    /\ rootDirs = {}
    /\ entries = [k \in RequestKeys |-> NoEntry]
    /\ scratch = [p \in Procs |-> "none"]
    /\ lock = 0
    /\ fp = [p \in Procs |-> NoFetch]

NoError == [origin |-> "none", kind |-> "none"]

\* An error value, with where it was raised.
Err(origin, kind) == [origin |-> origin, kind |-> kind]

NoFind ==
    [pc |-> "idle", allows_managed |-> FALSE, is_automatic |-> FALSE,
     is_online |-> FALSE, convertible |-> FALSE, found |-> "none",
     err |-> NoError, fill |-> "none", fetch |-> "none", fetch_calls |-> 0,
     result |-> "none", returned |-> NoError]

InitFind == fd = NoFind

NoCommand ==
    [name |-> "none", prev |-> 0, pc |-> "done", request |-> "none",
     patch |-> 0, targets |-> {}, pending |-> {}, stale |-> {}, replaced |-> {},
     installed |-> {}, retargeted |-> {}, exit_code |-> 0, message |-> ""]

InitCommand ==
    /\ pin = Broken
    /\ cmd = NoCommand

\* A result that has not been computed.
NoResult == [state |-> "none", str |-> <<>>, bool |-> FALSE]

NoName == [name |-> <<>>, normalize |-> NoResult, is_normalized |-> NoResult,
           validate_and_normalize_ref |-> NoResult, again |-> NoResult]

InitName == nm = NoName

\* No installation key: the placeholder of a key that was not given or not
\* parsed.
NoKey == [implementation |-> [known |-> TRUE, name |-> <<>>],
          major |-> 0, minor |-> 0, patch |-> 0, prerelease |-> <<>>,
          os |-> "", arch |-> "", libc |-> "", variant |-> "default"]

\* No result of PythonInstallationKey::from_str yet.
NoParse == [state |-> "none", key |-> NoKey, text |-> <<>>, message |-> ""]

\* The key functions were not called: no keys, no string, no results.
NoKeys == [given |-> "none", a |-> NoKey, b |-> NoKey, text |-> <<>>,
           to_string |-> <<>>, from_str |-> NoParse, again |-> <<>>,
           reparsed |-> NoParse, cmp |-> "none", cmp_back |-> "none"]

InitKey == ky = NoKeys

\* The catalog learns of a newer patch of a minor.
Release(m) ==
    /\ catalog[m] < MaxPatch
    /\ catalog' = [catalog EXCEPT ![m] = catalog[m] + 1]
    /\ UNCHANGED <<installed, anchor, tmpLink, up>>

\* `python install M.m.p` of a minor that has no installation yet: the patch
\* directory appears and the per-minor anchor is created pointing at it.
Install(m, p) ==
    /\ up.pc = "idle"
    /\ InstalledPatches(m) = {}
    /\ p <= catalog[m]
    /\ installed' = installed \cup { <<m, p>> }
    /\ anchor' = [anchor EXCEPT ![m] = p]
    /\ UNCHANGED <<tmpLink, catalog, up>>

\* Faulty variant: the new patch takes the place of the directory the anchor
\* points at.
UpgradeInstallInPlace(m) ==
    /\ up.pc = "idle"
    /\ InstalledPatches(m) # {}
    /\ <<m, catalog[m]>> \notin installed
    /\ installed' = (installed \ { <<m, anchor[m]>> }) \cup { <<m, catalog[m]>> }
    /\ up' = [pc |-> "installed", minor |-> m, old |-> anchor[m], target |-> catalog[m]]
    /\ UNCHANGED <<anchor, tmpLink, catalog>>

\* Faulty variant: an upgrade to the patch that is installed already goes
\* through the installation and the retargeting again.
UpgradeNoopReinstall(m) ==
    /\ up.pc = "idle"
    /\ InstalledPatches(m) # {}
    /\ <<m, catalog[m]>> \in installed
    /\ up' = [pc |-> "installed", minor |-> m, old |-> anchor[m], target |-> catalog[m]]
    /\ UNCHANGED <<installed, anchor, tmpLink, catalog>>

\* `python upgrade M.m`, first step: the newest catalog patch of an installed
\* minor is installed into its own directory, beside the old one.
UpgradeInstall(m) ==
    /\ up.pc = "idle"
    /\ InstalledPatches(m) # {}
    /\ <<m, catalog[m]>> \notin installed
    /\ installed' = installed \cup { <<m, catalog[m]>> }
    /\ up' = [pc |-> "installed", minor |-> m, old |-> anchor[m], target |-> catalog[m]]
    /\ UNCHANGED <<anchor, tmpLink, catalog>>

\* `python upgrade M.m` when the newest catalog patch is already installed.
UpgradeNoop(m) ==
    /\ up.pc = "idle"
    /\ InstalledPatches(m) # {}
    /\ <<m, catalog[m]>> \in installed
    /\ UNCHANGED registryVars

\* Retargeting the anchor, first half: the temporary link.
UpgradeStage ==
    /\ up.pc = "installed"
    /\ tmpLink' = [tmpLink EXCEPT ![up.minor] = up.target]
    /\ anchor' = [anchor EXCEPT ![up.minor] = ReplaceSymlinkStaged(anchor[up.minor], up.target)]
    /\ up' = [up EXCEPT !.pc = "staged"]
    /\ UNCHANGED <<installed, catalog>>

\* Retargeting the anchor, second half: the temporary link is renamed over
\* the anchor.
UpgradeRename ==
    /\ up.pc = "staged"
    /\ anchor' = [anchor EXCEPT ![up.minor] = tmpLink[up.minor]]
    /\ tmpLink' = [tmpLink EXCEPT ![up.minor] = 0]
    /\ up' = NoUpgrade
    /\ UNCHANGED <<installed, catalog>>

\* create, from call to return.
Create(interpreter, prompt, system_site_packages, allow_existing, relocatable, seed) ==
    LET s == RunCreate(CallFrame(interpreter, prompt, system_site_packages,
                                 allow_existing, relocatable, seed), fs)
    IN  /\ cr.pc = "idle"
        /\ cr' = s.c
        /\ fs' = s.f

Init == InitRegistry /\ InitVenv /\ InitFetch /\ InitFind /\ InitCommand /\ InitName /\ InitKey

Next ==
    \/ \E m \in Minors : Release(m) /\ UNCHANGED <<venvVars, fetchVars, findVars, commandVars, nameVars, keyVars>>
    \/ \E m \in Minors, p \in Patches : Install(m, p) /\ UNCHANGED <<venvVars, fetchVars, findVars, commandVars, nameVars, keyVars>>
    \/ \E m \in Minors : UpgradeInstall(m) /\ UNCHANGED <<venvVars, fetchVars, findVars, commandVars, nameVars, keyVars>>
    \/ \E m \in Minors : UpgradeNoop(m) /\ UNCHANGED <<venvVars, fetchVars, findVars, commandVars, nameVars, keyVars>>
    \/ UpgradeStage /\ UNCHANGED <<venvVars, fetchVars, findVars, commandVars, nameVars, keyVars>>
    \/ UpgradeRename /\ UNCHANGED <<venvVars, fetchVars, findVars, commandVars, nameVars, keyVars>>
    \/ \E interpreter \in Interpreters \cup VenvInterpreters, allow_existing \in BOOLEAN :
          /\ Create(interpreter, "None", FALSE, allow_existing, FALSE, FALSE)
          /\ UNCHANGED <<registryVars, fetchVars, findVars, commandVars, nameVars, keyVars>>

Spec == Init /\ [][Next]_vars

----------------------------------------------------------------------------
(* SpecCreate: create, one filesystem operation at a time, on a registry   *)
(* that holds one installation.  Any operation can fail, and create then   *)
(* returns the error, leaving what it had written.                         *)

InitCreateRegistry ==
    /\ installed = { << "3.10", 1 >> }
    /\ anchor = [m \in Minors |-> IF m = "3.10" THEN 1 ELSE 0]
    /\ tmpLink = [m \in Minors |-> 0]
    /\ catalog = [m \in Minors |-> 1]
    /\ up = NoUpgrade

\* The options create is called with.
CreateOptions ==
    { [prompt |-> "None", system_site_packages |-> FALSE,
       relocatable |-> FALSE, seed |-> FALSE],
      [prompt |-> "Static", system_site_packages |-> TRUE,
       relocatable |-> TRUE, seed |-> TRUE],
      [prompt |-> "CurrentDirectoryName", system_site_packages |-> FALSE,
       relocatable |-> TRUE, seed |-> FALSE],
      [prompt |-> "None", system_site_packages |-> FALSE,
       relocatable |-> FALSE, seed |-> TRUE] }

\* create is called.
CreateCall(interpreter, o, allow_existing) ==
    /\ cr.pc \in { "idle", "done" }
    /\ cr.calls < MaxCreates
    /\ cr' = [CallFrame(interpreter, o.prompt, o.system_site_packages,
                        allow_existing, o.relocatable, o.seed)
                EXCEPT !.calls = cr.calls + 1]
    /\ UNCHANGED fs

\* The operation at cr.pc succeeds.
CreateOk ==
    /\ ~Returned(cr)
    /\ cr' = CreateStep(cr, fs).c
    /\ fs' = CreateStep(cr, fs).f

\* The operation at cr.pc fails with an I/O error, which create returns.
CreateIoError ==
    /\ ~Returned(cr)
    /\ cr' = Fail(cr, "Io")
    /\ UNCHANGED fs

InitCreate == InitCreateRegistry /\ InitVenv /\ InitFetch /\ InitFind /\ InitCommand /\ InitName /\ InitKey

NextCreate ==
    \/ \E interpreter \in Interpreters, o \in CreateOptions, allow_existing \in BOOLEAN :
          CreateCall(interpreter, o, allow_existing)
          /\ UNCHANGED <<registryVars, fetchVars, findVars, commandVars, nameVars, keyVars>>
    \/ CreateOk /\ UNCHANGED <<registryVars, fetchVars, findVars, commandVars, nameVars, keyVars>>
    \/ CreateIoError /\ UNCHANGED <<registryVars, fetchVars, findVars, commandVars, nameVars, keyVars>>

SpecCreate == InitCreate /\ [][NextCreate]_vars

----------------------------------------------------------------------------
(* SpecFetch: PythonInstallation::fetch, called once by each of several    *)
(* processes on one installations root.                                    *)

\* Faulty variant: the sysconfig patch runs before the marker is written.
PostInstallHooksSwapped ==
    << "ensure_sysconfig_patched", "ensure_externally_managed",
       "ensure_canonical_executables", "ensure_dylib_patched" >>

\* The post-install hooks, in the order fetch runs them.
PostInstallHooks ==
    << "ensure_externally_managed", "ensure_sysconfig_patched",
       "ensure_canonical_executables", "ensure_dylib_patched" >>

\* Faulty variant: every hook's error is returned.
FatalAlways(hook) == TRUE

\* Whether fetch returns a hook's error (`?`) or only warns about it.
Fatal(hook) == hook # "ensure_dylib_patched"

\* Faulty variant: the guard is bound to `_` and dropped at once.
LockDropped(p) == 0

\* The holder of the lock once `_lock` is bound: the guard lives until fetch
\* returns.
LockBinding(p) == p

\* Faulty variant: the archive is unpacked in the place of the entry.
ExtractInPlace == "root"

\* ManagedPythonDownload::fetch_with_retry: where the archive is unpacked.
ExtractDir == "scratch"

\* ManagedPythonInstallations::init: the directories it makes sure exist.
InitDirs == { "root", "scratch" }

\* The frame after a mutation of the installations root named `what`: it is
\* recorded with whether the process held the lock.
Mutated(frame, p, what) ==
    IF lock = p
    THEN [frame EXCEPT !.locked = frame.locked \cup what]
    ELSE [frame EXCEPT !.unlocked = frame.unlocked \cup what]

\* Faulty variant: the guard outlives the call.
UnlockedNever(p) == lock

\* fetch returns: `_lock` goes out of scope.
Unlocked(p) == IF lock = p THEN 0 ELSE lock

ReturnErr(frame, err) == [frame EXCEPT !.pc = "failed", !.result = "err", !.err = err]

FetchCall(p, key) ==
    /\ fp[p].pc = "idle"
    /\ fp' = [fp EXCEPT ![p] = [NoFetch EXCEPT !.pc = "init", !.key = key]]
    /\ UNCHANGED <<rootDirs, entries, scratch, lock>>

\* ManagedPythonInstallations::from_settings(None)?.init()?
FetchInit(p) ==
    /\ fp[p].pc = "init"
    /\ \/ /\ rootDirs' = rootDirs \cup InitDirs
          /\ fp' = [fp EXCEPT ![p] =
                      [Mutated(fp[p], p, InitDirs \ rootDirs) EXCEPT !.pc = "lock"]]
       \/ /\ fp' = [fp EXCEPT ![p] = ReturnErr(fp[p], "init")]
          /\ UNCHANGED rootDirs
    /\ UNCHANGED <<entries, scratch, lock>>

\* installations.lock().await?: waits while another process holds the lock.
FetchLock(p) ==
    /\ fp[p].pc = "lock"
    /\ \/ /\ lock = 0
          /\ lock' = LockBinding(p)
          /\ fp' = [fp EXCEPT ![p].pc = "from_request"]
       \/ /\ fp' = [fp EXCEPT ![p] = ReturnErr(fp[p], "lock")]
          /\ UNCHANGED lock
    /\ UNCHANGED <<rootDirs, entries, scratch>>

\* ManagedPythonDownload::from_request(..)?
FetchFromRequest(p) ==
    /\ fp[p].pc = "from_request"
    /\ \/ /\ fp' = [fp EXCEPT ![p].pc = "available"]
          /\ UNCHANGED lock
       \/ /\ fp' = [fp EXCEPT ![p] = ReturnErr(fp[p], "NoDownloadFound")]
          /\ lock' = Unlocked(p)
    /\ UNCHANGED <<rootDirs, entries, scratch>>

\* fetch_with_retry: an entry that is there already is not downloaded again.
FetchAvailable(p) ==
    /\ fp[p].pc = "available"
    /\ fp' = [fp EXCEPT ![p] =
                IF entries[fp[p].key].state # "absent"
                THEN [fp[p] EXCEPT !.pc = "hooks", !.h = 1, !.path = "AlreadyAvailable"]
                ELSE [fp[p] EXCEPT !.pc = "download"]]
    /\ UNCHANGED <<rootDirs, entries, scratch, lock>>

\* fetch_with_retry: the archive is streamed into the scratch directory; the
\* transfer can fail for good, leaving what it wrote.
FetchDownload(p) ==
    /\ fp[p].pc = "download"
    /\ \E ok \in BOOLEAN :
          /\ scratch' = [scratch EXCEPT ![p] = IF ok THEN "archive" ELSE "partial archive"]
          /\ fp' = [fp EXCEPT ![p] =
                      IF ok THEN [Mutated(fp[p], p, {"download"}) EXCEPT !.pc = "extract"]
                      ELSE ReturnErr(Mutated(fp[p], p, {"download"}), "download")]
          /\ lock' = IF ok THEN lock ELSE Unlocked(p)
    /\ UNCHANGED <<rootDirs, entries>>

\* fetch_with_retry: the archive is unpacked; a distribution that is being
\* unpacked is partial until the last file is written.
FetchExtract(p) ==
    /\ fp[p].pc = "extract"
    /\ IF ExtractDir = "scratch"
       THEN scratch' = [scratch EXCEPT ![p] = "partial distribution"] /\ UNCHANGED entries
       ELSE entries' = [entries EXCEPT ![fp[p].key].state = "partial"] /\ UNCHANGED scratch
    /\ fp' = [fp EXCEPT ![p] = [Mutated(fp[p], p, {"extract"}) EXCEPT !.pc = "extracting"]]
    /\ UNCHANGED <<rootDirs, lock>>

FetchExtracting(p) ==
    /\ fp[p].pc = "extracting"
    /\ \/ /\ IF ExtractDir = "scratch"
             THEN scratch' = [scratch EXCEPT ![p] = "distribution"] /\ UNCHANGED entries
             ELSE entries' = [entries EXCEPT ![fp[p].key].state = "complete"] /\ UNCHANGED scratch
          /\ fp' = [fp EXCEPT ![p].pc = "rename"]
          /\ UNCHANGED lock
       \/ /\ fp' = [fp EXCEPT ![p] = ReturnErr(fp[p], "extract")]
          /\ lock' = Unlocked(p)
          /\ UNCHANGED <<entries, scratch>>
    /\ UNCHANGED rootDirs

\* fetch_with_retry: the unpacked distribution is renamed to <root>/<key>.
FetchRename(p) ==
    /\ fp[p].pc = "rename"
    /\ \/ /\ entries' = [entries EXCEPT ![fp[p].key].state = "complete"]
          /\ scratch' = [scratch EXCEPT ![p] = "none"]
          /\ fp' = [fp EXCEPT ![p] =
                      [Mutated(fp[p], p, {"rename"}) EXCEPT
                          !.pc = "hooks", !.h = 1, !.path = "Fetched"]]
          /\ UNCHANGED lock
       \/ /\ fp' = [fp EXCEPT ![p] = ReturnErr(fp[p], "rename")]
          /\ lock' = Unlocked(p)
          /\ UNCHANGED <<entries, scratch>>
    /\ UNCHANGED rootDirs

\* The download or the extraction is cancelled while it waits: the future is
\* dropped, and with it the lock guard.
FetchCancel(p) ==
    /\ fp[p].pc \in { "lock", "download", "extracting" }
    /\ fp' = [fp EXCEPT ![p] = [fp[p] EXCEPT !.pc = "cancelled", !.err = "cancelled"]]
    /\ lock' = Unlocked(p)
    /\ UNCHANGED <<rootDirs, entries, scratch>>

\* One post-install hook, on the installation at `path`.
FetchHook(p) ==
    LET hook == PostInstallHooks[fp[p].h]
        next == IF fp[p].h = Len(PostInstallHooks) THEN "query" ELSE "hooks"
    IN  /\ fp[p].pc = "hooks"
        /\ \/ /\ entries' = [entries EXCEPT ![fp[p].key].marks = @ \cup {hook}]
              /\ fp' = [fp EXCEPT ![p] =
                          [Mutated(fp[p], p, {hook}) EXCEPT
                              !.pc = next, !.h = fp[p].h + 1,
                              !.hooks = Append(fp[p].hooks, hook)]]
              /\ UNCHANGED lock
           \/ /\ fp' = [fp EXCEPT ![p] =
                          IF Fatal(hook)
                          THEN ReturnErr([fp[p] EXCEPT !.failed = @ \cup {hook}], hook)
                          ELSE [fp[p] EXCEPT !.failed = @ \cup {hook},
                                             !.pc = next, !.h = fp[p].h + 1]]
              /\ lock' = IF Fatal(hook) THEN Unlocked(p) ELSE lock
              /\ UNCHANGED entries
        /\ UNCHANGED <<rootDirs, scratch>>

\* Interpreter::query(installed.executable(false), cache)?, and the return.
FetchQuery(p) ==
    /\ fp[p].pc = "query"
    /\ \/ fp' = [fp EXCEPT ![p] = [fp[p] EXCEPT !.pc = "done", !.result = "ok"]]
       \/ fp' = [fp EXCEPT ![p] = ReturnErr(fp[p], "query")]
    /\ lock' = Unlocked(p)
    /\ UNCHANGED <<rootDirs, entries, scratch>>

NextFetch ==
    \/ \E p \in Procs, key \in RequestKeys :
          FetchCall(p, key) /\ UNCHANGED <<registryVars, venvVars, findVars, commandVars, nameVars, keyVars>>
    \/ \E p \in Procs : FetchInit(p) /\ UNCHANGED <<registryVars, venvVars, findVars, commandVars, nameVars, keyVars>>
    \/ \E p \in Procs : FetchLock(p) /\ UNCHANGED <<registryVars, venvVars, findVars, commandVars, nameVars, keyVars>>
    \/ \E p \in Procs : FetchFromRequest(p) /\ UNCHANGED <<registryVars, venvVars, findVars, commandVars, nameVars, keyVars>>
    \/ \E p \in Procs : FetchAvailable(p) /\ UNCHANGED <<registryVars, venvVars, findVars, commandVars, nameVars, keyVars>>
    \/ \E p \in Procs : FetchDownload(p) /\ UNCHANGED <<registryVars, venvVars, findVars, commandVars, nameVars, keyVars>>
    \/ \E p \in Procs : FetchExtract(p) /\ UNCHANGED <<registryVars, venvVars, findVars, commandVars, nameVars, keyVars>>
    \/ \E p \in Procs : FetchExtracting(p) /\ UNCHANGED <<registryVars, venvVars, findVars, commandVars, nameVars, keyVars>>
    \/ \E p \in Procs : FetchRename(p) /\ UNCHANGED <<registryVars, venvVars, findVars, commandVars, nameVars, keyVars>>
    \/ \E p \in Procs : FetchCancel(p) /\ UNCHANGED <<registryVars, venvVars, findVars, commandVars, nameVars, keyVars>>
    \/ \E p \in Procs : FetchHook(p) /\ UNCHANGED <<registryVars, venvVars, findVars, commandVars, nameVars, keyVars>>
    \/ \E p \in Procs : FetchQuery(p) /\ UNCHANGED <<registryVars, venvVars, findVars, commandVars, nameVars, keyVars>>

InitInstallation == InitRegistry /\ InitNoVenv /\ InitFetch /\ InitFind /\ InitCommand /\ InitName /\ InitKey

SpecFetch == InitInstallation /\ [][NextFetch]_vars

\* A step of process p's fetch other than an error of lock() itself: the
\* executor runs a fetch that is not blocked, and lock() returns the guard
\* once the lock is free.
FetchProgress(p) ==
    /\ \/ FetchInit(p)
       \/ FetchLock(p) /\ fp'[p].pc = "from_request"
       \/ FetchFromRequest(p)
       \/ FetchAvailable(p)
       \/ FetchDownload(p)
       \/ FetchExtract(p)
       \/ FetchExtracting(p)
       \/ FetchRename(p)
       \/ FetchHook(p)
       \/ FetchQuery(p)
    /\ UNCHANGED <<registryVars, venvVars, findVars, commandVars, nameVars, keyVars>>

\* SpecFetch with every fetch that can go on going on eventually.
SpecFetchFair == SpecFetch /\ \A p \in Procs : WF_vars(FetchProgress(p))

----------------------------------------------------------------------------
(* SpecFind: PythonInstallation::find_or_download, one call.               *)

\* What find returns: an installation or one of the errors.
FindOutcomes ==
    { "Ok", "MissingPython", "DiscoveryNonCritical", "DiscoveryCritical",
      "InvalidVersionRequest" }

\* What fetch returns: an installation or one of the errors.
FetchOutcomes == { "Ok", "NoDownloadFound", "NetworkError", "Io" }

\* Faulty variant: connectivity is not consulted.
DownloadsEnabledOffline(allows_managed, is_automatic, is_online) ==
    allows_managed /\ is_automatic

DownloadsEnabled(allows_managed, is_automatic, is_online) ==
    allows_managed /\ is_automatic /\ is_online

\* Faulty variant: a download is attempted after any discovery error.
AttemptsDownloadCritical(err) ==
    err.kind \in { "MissingPython", "DiscoveryNonCritical", "DiscoveryCritical" }

\* The errors of find after which a download is attempted.
AttemptsDownload(err) == err.kind \in { "MissingPython", "DiscoveryNonCritical" }

\* Faulty variant: the error of fetch is returned whatever it is.
FetchErrorAlways(err, fetch_err) == fetch_err

\* The error returned when fetch fails with fetch_err after find failed with err.
FetchError(err, fetch_err) ==
    IF fetch_err.kind = "NoDownloadFound" THEN err ELSE fetch_err

FodReturnOk(frame) == [frame EXCEPT !.pc = "returned", !.result = "Ok"]

FodReturnErr(frame, err) ==
    [frame EXCEPT !.pc = "returned", !.result = "Err", !.returned = err]

FodCall(allows_managed, is_automatic, is_online, convertible) ==
    /\ fd.pc = "idle"
    /\ fd' = [NoFind EXCEPT !.pc = "find", !.allows_managed = allows_managed,
                            !.is_automatic = is_automatic, !.is_online = is_online,
                            !.convertible = convertible]

FodFind(found) ==
    /\ fd.pc = "find"
    /\ fd' = IF found = "Ok"
             THEN FodReturnOk([fd EXCEPT !.found = found])
             ELSE [fd EXCEPT !.pc = "enabled", !.found = found,
                             !.err = Err("find", found)]

FodEnabled ==
    /\ fd.pc = "enabled"
    /\ fd' = IF ~DownloadsEnabled(fd.allows_managed, fd.is_automatic, fd.is_online)
             THEN FodReturnErr(fd, fd.err)
             ELSE [fd EXCEPT !.pc = "match"]

FodMatch ==
    /\ fd.pc = "match"
    /\ fd' = IF AttemptsDownload(fd.err)
             THEN [fd EXCEPT !.pc = "from_request"]
             ELSE FodReturnErr(fd, fd.err)

FodFromRequest ==
    /\ fd.pc = "from_request"
    /\ fd' = IF fd.convertible
             THEN [fd EXCEPT !.pc = "fill"]
             ELSE FodReturnErr(fd, fd.err)

\* request.fill()?
FodFill(ok) ==
    /\ fd.pc = "fill"
    /\ fd' = IF ok
             THEN [fd EXCEPT !.pc = "fetch", !.fill = "Ok"]
             ELSE FodReturnErr([fd EXCEPT !.fill = "Err"], Err("fill", "fill"))

FodFetch(outcome) ==
    /\ fd.pc = "fetch"
    /\ LET called == [fd EXCEPT !.fetch = outcome, !.fetch_calls = fd.fetch_calls + 1]
       IN  fd' = IF outcome = "Ok"
                 THEN FodReturnOk(called)
                 ELSE FodReturnErr(called, FetchError(fd.err, Err("fetch", outcome)))

NextFind ==
    \/ \E allows_managed \in BOOLEAN, is_automatic \in BOOLEAN,
          is_online \in BOOLEAN, convertible \in BOOLEAN :
          /\ FodCall(allows_managed, is_automatic, is_online, convertible)
          /\ UNCHANGED <<registryVars, venvVars, fetchVars, commandVars, nameVars, keyVars>>
    \/ \E found \in FindOutcomes :
          FodFind(found) /\ UNCHANGED <<registryVars, venvVars, fetchVars, commandVars, nameVars, keyVars>>
    \/ FodEnabled /\ UNCHANGED <<registryVars, venvVars, fetchVars, commandVars, nameVars, keyVars>>
    \/ FodMatch /\ UNCHANGED <<registryVars, venvVars, fetchVars, commandVars, nameVars, keyVars>>
    \/ FodFromRequest /\ UNCHANGED <<registryVars, venvVars, fetchVars, commandVars, nameVars, keyVars>>
    \/ \E ok \in BOOLEAN : FodFill(ok) /\ UNCHANGED <<registryVars, venvVars, fetchVars, commandVars, nameVars, keyVars>>
    \/ \E outcome \in FetchOutcomes :
          FodFetch(outcome) /\ UNCHANGED <<registryVars, venvVars, fetchVars, commandVars, nameVars, keyVars>>

SpecFind == InitInstallation /\ [][NextFind]_vars

----------------------------------------------------------------------------
(* SpecUpgrade: the commands of the upgrade tests (python install, python  *)
(* pin, python upgrade, venv) on one registry and one project.             *)

\* An upgrade as it starts; prev is the exit code of the upgrade before it.
Ran(name) == [NoCommand EXCEPT !.name = name, !.prev = cmd.exit_code]

\* The minor the project of the tests is built on.
ProjectMinor == "3.10"

\* Faulty variant: a patch version is taken for its minor.
AcceptsAnyRequest(patch) == TRUE

\* `python upgrade` only accepts minor versions: a request without a patch.
AcceptsRequest(patch) == patch = 0

\* The installed minors.
InstalledMinors == { m \in Minors : InstalledPatches(m) # {} }

\* The minors whose newest catalog patch is not installed.
Stale(ms) == { m \in ms : <<m, catalog[m]>> \notin installed }

\* Faulty variant: the pinned version is looked up through the minor's anchor.
ProjectPythonByMinor ==
    IF pin # Broken THEN ResolveDir(LinkDir(pin[1]))
    ELSE IF cr.pc = "done" THEN ResolveDir(fs["bin/python"].target.dir)
    ELSE Broken

\* `uv run python --version` in the project: the pinned patch if there is a
\* pin, the venv's interpreter otherwise.
ProjectPython ==
    IF pin # Broken THEN ResolveDir(PatchDir(pin[1], pin[2]))
    ELSE IF cr.pc = "done" THEN ResolveDir(fs["bin/python"].target.dir)
    ELSE Broken

\* The output of an upgrade.
UpgradeMessage(c) ==
    IF c.installed # {} THEN "Installed"
    ELSE IF c.request = "all" /\ c.targets # {}
    THEN "All requested versions already on latest patch"
    ELSE ""

\* `python install M.m.p`
CmdInstall(m, p) ==
    /\ cmd.pc = "done"
    /\ Install(m, p)
    /\ UNCHANGED commandVars

\* `python pin M.m.p`, of an installed version of the project's minor.
CmdPin(m, p) ==
    /\ cmd.pc = "done"
    /\ m = ProjectMinor
    /\ up.pc = "idle"
    /\ <<m, p>> \in installed
    /\ pin' = <<m, p>>
    /\ UNCHANGED cmd
    /\ UNCHANGED registryVars

\* Faulty variant: a request for one minor upgrades every installed minor.
UpgradeTargetsAll(request) == InstalledMinors

\* The minors an upgrade works on: the requested one, or every installed
\* minor when no version is given.
UpgradeTargets(request) == IF request = "all" THEN InstalledMinors ELSE { request }

\* `python upgrade [M.m | M.m.p]`, for an installed minor or an installed
\* patch: the request is checked and the minors to upgrade are collected;
\* request "all" is the command without a version.
CmdUpgrade(request, patch) ==
    /\ cmd.pc = "done"
    /\ up.pc = "idle"
    /\ request = "all" => patch = 0
    /\ request # "all" => request \in InstalledMinors
    /\ patch # 0 => <<request, patch>> \in installed
    /\ cmd' = IF ~AcceptsRequest(patch)
              THEN [Ran("upgrade") EXCEPT
                      !.request = request, !.patch = patch, !.exit_code = 1,
                      !.message = "error: upgrade only accepts minor versions"]
              ELSE LET targets == UpgradeTargets(request)
                   IN  [Ran("upgrade") EXCEPT
                          !.pc = "running", !.request = request, !.patch = patch,
                          !.targets = targets, !.pending = targets,
                          !.stale = Stale(targets),
                          !.replaced = { <<m, anchor[m]>> : m \in Stale(targets) }]
    /\ UNCHANGED <<registryVars, pin>>

\* One of the minors of a running upgrade: its newest catalog patch is
\* installed, or it is there already.
CmdUpgradeMinor(m) ==
    /\ cmd.pc = "running"
    /\ m \in cmd.pending
    /\ \/ /\ UpgradeInstall(m)
          /\ cmd' = [cmd EXCEPT !.pending = @ \ {m},
                                !.installed = @ \cup { <<m, catalog[m]>> }]
       \/ /\ UpgradeNoop(m)
          /\ cmd' = [cmd EXCEPT !.pending = @ \ {m}]
    /\ UNCHANGED pin

CmdUpgradeStage ==
    /\ cmd.pc = "running"
    /\ UpgradeStage
    /\ UNCHANGED commandVars

CmdUpgradeRename ==
    /\ cmd.pc = "running"
    /\ UpgradeRename
    /\ cmd' = [cmd EXCEPT !.retargeted = @ \cup { up.minor }]
    /\ UNCHANGED pin

\* The upgrade reports and exits.
CmdUpgradeExit ==
    /\ cmd.pc = "running"
    /\ cmd.pending = {}
    /\ up.pc = "idle"
    /\ cmd' = [cmd EXCEPT !.pc = "done", !.message = UpgradeMessage(cmd)]
    /\ UNCHANGED <<registryVars, pin>>

\* `uv venv` on a managed interpreter of the project's minor, in a project
\* that has no venv yet.
CmdVenv(interpreter) ==
    /\ cmd.pc = "done"
    /\ interpreter.managed
    /\ interpreter.minor = ProjectMinor
    /\ Create(interpreter, "None", FALSE, FALSE, FALSE, FALSE)
    /\ UNCHANGED commandVars

InitUpgrade == InitRegistry /\ InitNoVenv /\ InitFetch /\ InitFind /\ InitCommand /\ InitName /\ InitKey

NextUpgrade ==
    \/ \E m \in Minors :
          cmd.pc = "done" /\ Release(m) /\ UNCHANGED <<venvVars, fetchVars, findVars, commandVars, nameVars, keyVars>>
    \/ \E m \in Minors, p \in Patches :
          CmdInstall(m, p) /\ UNCHANGED <<venvVars, fetchVars, findVars, nameVars, keyVars>>
    \/ \E m \in Minors, p \in Patches :
          CmdPin(m, p) /\ UNCHANGED <<venvVars, fetchVars, findVars, nameVars, keyVars>>
    \/ \E request \in Minors \cup { "all" }, patch \in { 0 } \cup Patches :
          CmdUpgrade(request, patch) /\ UNCHANGED <<venvVars, fetchVars, findVars, nameVars, keyVars>>
    \/ \E m \in Minors : CmdUpgradeMinor(m) /\ UNCHANGED <<venvVars, fetchVars, findVars, nameVars, keyVars>>
    \/ CmdUpgradeStage /\ UNCHANGED <<venvVars, fetchVars, findVars, nameVars, keyVars>>
    \/ CmdUpgradeRename /\ UNCHANGED <<venvVars, fetchVars, findVars, nameVars, keyVars>>
    \/ CmdUpgradeExit /\ UNCHANGED <<venvVars, fetchVars, findVars, nameVars, keyVars>>
    \/ \E interpreter \in Interpreters :
          CmdVenv(interpreter) /\ UNCHANGED <<registryVars, fetchVars, findVars, nameVars, keyVars>>

SpecUpgrade == InitUpgrade /\ [][NextUpgrade]_vars

----------------------------------------------------------------------------
(* SpecNormalize: normalize, is_normalized and validate_and_normalize_ref   *)
(* of uv-normalize, applied to one name.                                   *)

\* The bytes of a name: one or two of each arm of the matches, "!" standing
\* for every byte of the last arm.
Uppercase == { "A" }
LowercaseOrDigit == { "a", "1" }
Punctuation == { "-", "_", "." }
Bytes == Uppercase \cup LowercaseOrDigit \cup Punctuation \cup { "!" }

Names == UNION { [1..n -> Bytes] : n \in 0..MaxNameLen }

\* Faulty variant: the case is kept.
KeepCase(char) == char

\* u8::to_ascii_lowercase
ToAsciiLowercase(char) == IF char = "A" THEN "a" ELSE char

\* Faulty variant: only a repetition of the same byte is dropped.
InRunOfSame(last, char) == last[1] = char

\* normalize: the byte before a punctuation byte was punctuation as well.
InRun(last, char) == last[1] \in Punctuation

\* Faulty variant: `_` is left to the last arm.
NeedsDashOnlyDot(char) == char = "."

\* is_normalized: the bytes that normalize turns into `-`.
NeedsDash(char) == char \in { "_", "." }

\* Faulty variant: a run of `-` is let through.
AfterDashNever(last) == FALSE

\* is_normalized: the byte before a `-` was a `-` as well.
AfterDash(last) == last[1] = "-"

\* Faulty variant: the last byte is not looked at.
EndsWithPunctuationNever(last) == FALSE

\* matches!(last, Some(b'-' | b'_' | b'.'))
EndsWithPunctuation(last) == last # <<>> /\ last[1] \in Punctuation

Ok(str) == [state |-> "Ok", str |-> str, bool |-> FALSE]
OkBool(bool) == [state |-> "Ok", str |-> <<>>, bool |-> bool]
InvalidNameError(name) == [state |-> "Err", str |-> name, bool |-> FALSE]

\* The loop of normalize from the byte at i on; last is an Option, <<>> for
\* None.
RECURSIVE NormalizeFrom(_, _, _, _)
NormalizeFrom(name, i, normalized, last) ==
    IF i > Len(name)
    THEN IF EndsWithPunctuation(last) THEN InvalidNameError(name) ELSE Ok(normalized)
    ELSE LET char == name[i]
         IN  CASE char \in Uppercase ->
                    NormalizeFrom(name, i + 1,
                                  Append(normalized, ToAsciiLowercase(char)), <<char>>)
               [] char \in LowercaseOrDigit ->
                    NormalizeFrom(name, i + 1, Append(normalized, char), <<char>>)
               [] char \in Punctuation ->
                    IF last = <<>> THEN InvalidNameError(name)
                    ELSE IF InRun(last, char)
                    THEN NormalizeFrom(name, i + 1, normalized, <<char>>)
                    ELSE NormalizeFrom(name, i + 1, Append(normalized, "-"), <<char>>)
               [] OTHER -> InvalidNameError(name)

Normalize(name) == NormalizeFrom(name, 1, <<>>, <<>>)

\* The loop of is_normalized from the byte at i on.
RECURSIVE IsNormalizedFrom(_, _, _)
IsNormalizedFrom(name, i, last) ==
    IF i > Len(name)
    THEN IF EndsWithPunctuation(last) THEN InvalidNameError(name) ELSE OkBool(TRUE)
    ELSE LET char == name[i]
         IN  CASE char \in Uppercase -> OkBool(FALSE)
               [] char \in LowercaseOrDigit -> IsNormalizedFrom(name, i + 1, <<char>>)
               [] NeedsDash(char) -> OkBool(FALSE)
               [] char = "-" ->
                    IF last = <<>> THEN InvalidNameError(name)
                    ELSE IF AfterDash(last) THEN OkBool(FALSE)
                    ELSE IsNormalizedFrom(name, i + 1, <<char>>)
               [] OTHER -> InvalidNameError(name)

IsNormalized(name) == IsNormalizedFrom(name, 1, <<>>)

ValidateAndNormalizeRef(name) ==
    LET checked == IsNormalized(name)
    IN  IF checked.state = "Err" THEN checked
        ELSE IF checked.bool THEN Ok(name)
        ELSE Normalize(name)

InitNormalize ==
    /\ InitRegistry /\ InitNoVenv /\ InitFetch /\ InitFind /\ InitCommand /\ InitKey
    /\ \E name \in Names : nm = [NoName EXCEPT !.name = name]

CallNormalize ==
    /\ nm.normalize.state = "none"
    /\ nm' = [nm EXCEPT !.normalize = Normalize(nm.name)]

\* normalize, on what normalize returned.
CallNormalizeAgain ==
    /\ nm.normalize.state = "Ok"
    /\ nm.again.state = "none"
    /\ nm' = [nm EXCEPT !.again = Normalize(nm.normalize.str)]

CallIsNormalized ==
    /\ nm.is_normalized.state = "none"
    /\ nm' = [nm EXCEPT !.is_normalized = IsNormalized(nm.name)]

CallValidateAndNormalizeRef ==
    /\ nm.validate_and_normalize_ref.state = "none"
    /\ nm' = [nm EXCEPT !.validate_and_normalize_ref = ValidateAndNormalizeRef(nm.name)]

NextNormalize ==
    \/ CallNormalize /\ UNCHANGED <<registryVars, venvVars, fetchVars, findVars, commandVars, keyVars>>
    \/ CallNormalizeAgain /\ UNCHANGED <<registryVars, venvVars, fetchVars, findVars, commandVars, keyVars>>
    \/ CallIsNormalized /\ UNCHANGED <<registryVars, venvVars, fetchVars, findVars, commandVars, keyVars>>
    \/ CallValidateAndNormalizeRef
          /\ UNCHANGED <<registryVars, venvVars, fetchVars, findVars, commandVars, keyVars>>

SpecNormalize == InitNormalize /\ [][NextNormalize]_vars

----------------------------------------------------------------------------
(* Properties of Spec.                                                     *)

\* What running the venv's `python` reports: the installation its link
\* leads to.
ProbeVenv == ResolveDir(fs["bin/python"].target.dir)

VenvOnManaged == cr.pc = "done" /\ cr.interpreter.managed
Upgrading(m) == up.pc # "idle" /\ up.minor = m

\* C1: a venv built on a managed interpreter of a minor reports, once an
\* upgrade of that minor has finished, the newest installed patch of the
\* minor; and no step of an upgrade changes anything under the venv.
C1_TransparentUpgrade ==
    /\ [](VenvOnManaged /\ ~Upgrading(cr.interpreter.minor)
            => ProbeVenv = << cr.interpreter.minor, Newest(cr.interpreter.minor) >>)
    /\ [][up' # up => fs' = fs]_vars

\* A venv built on one patch reports a newer one after the upgrade.
C1_Witness ==
    /\ VenvOnManaged
    /\ up.pc = "idle"
    /\ fs["pyvenv.cfg"].cfg.version_info[2] < Newest(cr.interpreter.minor)
    /\ ProbeVenv = << cr.interpreter.minor, Newest(cr.interpreter.minor) >>

\* C2: after create, for a managed interpreter the `python` link and the
\* `home` of pyvenv.cfg go through the per-minor anchor and never through a
\* patch directory; for any other interpreter they are the base executable
\* and its parent directory.
C2_BoundToAnchor ==
    cr.pc = "done" =>
        LET target == fs["bin/python"].target
            home == fs["pyvenv.cfg"].cfg.home
            base == cr.interpreter.base_executable
        IN  IF cr.interpreter.managed
            THEN /\ target = AnchorExe(cr.interpreter.minor)
                 /\ home = RegistryPath(LinkDir(cr.interpreter.minor), <<"bin">>)
                 /\ target.dir.kind # "patch" /\ home.dir.kind # "patch"
            ELSE /\ target = base
                 /\ home = [base EXCEPT !.tail = <<"bin">>]

C2_Witness ==
    /\ cr.pc = "done" /\ cr.interpreter.managed
    /\ fs["bin/python"].target.dir = LinkDir(cr.interpreter.minor)
    /\ fs["pyvenv.cfg"].cfg.home.dir = LinkDir(cr.interpreter.minor)

\* C3: whenever a minor has an installation, and at every point of an upgrade
\* of it, resolving the minor's anchor leads to an installed patch directory:
\* the one it pointed at before the upgrade or the newly installed one.
C3_AtomicRetarget ==
    \A m \in Minors :
        InstalledPatches(m) # {} =>
            /\ ResolveDir(LinkDir(m)) # Broken
            /\ Upgrading(m) => ResolveDir(LinkDir(m)) \in { <<m, up.old>>, <<m, up.target>> }

\* Half-way through the retargeting a reader still sees the old patch.
C3_Witness ==
    /\ up.pc = "staged"
    /\ tmpLink[up.minor] = up.target
    /\ ResolveDir(LinkDir(up.minor)) = << up.minor, up.old >>

----------------------------------------------------------------------------
(* Properties of SpecCreate.                                               *)

\* The executable links create makes for an interpreter.
VenvLinks(interpreter) ==
    { "bin/python", "bin/pythonM", "bin/pythonM.m" }
        \cup (IF interpreter.implementation = "pypy" THEN { "bin/pypyM", "bin/pypy" } ELSE {})
        \cup (IF interpreter.implementation = "graalpy" THEN { "bin/graalpy" } ELSE {})

\* C4: while and after a first create builds a target, whenever pyvenv.cfg
\* exists in it, every executable link, every activation script, the
\* site-packages directory, _virtualenv.py and _virtualenv.pth exist too.
C4_CfgWrittenLast ==
    cr.calls = 1 /\ Exists(fs, "pyvenv.cfg") =>
        \A e \in VenvLinks(cr.interpreter) \cup ActivateEntries \cup SiteEntries :
            Exists(fs, e)

----------------------------------------------------------------------------
(* Properties of SpecFetch.                                                *)

\* The mutations of fetch after init.
FetchMutations ==
    { "download", "extract", "rename" }
        \cup { PostInstallHooks[i] : i \in 1..Len(PostInstallHooks) }

C6_NoPartialEntry ==
    /\ [](\A k \in RequestKeys : entries[k].state \in { "absent", "complete" })
    /\ [][\A k \in RequestKeys :
            entries'[k].state # entries[k].state =>
                /\ entries[k].state = "absent" /\ entries'[k].state = "complete"
                /\ \E p \in Procs :
                      fp[p].pc = "rename" /\ fp[p].key = k /\ scratch[p] = "distribution"]_vars

\* One fetch failed while it extracted and another was cancelled; what they
\* wrote is in scratch and the registry has no entry.
C6_Witness ==
    /\ \E p, q \in Procs :
          /\ fp[p].err = "extract" /\ scratch[p] = "partial distribution"
          /\ fp[q].err = "cancelled" /\ scratch[q] = "partial distribution"
    /\ \A k \in RequestKeys : entries[k].state = "absent"

\* C7: when fetch queries the interpreter, and so whenever it returns an
\* installation, the entry is extracted and ensure_externally_managed,
\* ensure_sysconfig_patched and ensure_canonical_executables have completed on
\* it, in that order, whether it was fetched or already available.
C7_HooksBeforeQuery ==
    \A p \in Procs :
        fp[p].pc \in { "query", "done" } \/ fp[p].err = "query" =>
            /\ fp[p].path \in { "Fetched", "AlreadyAvailable" }
            /\ entries[fp[p].key].state = "complete"
            /\ Len(fp[p].hooks) >= 3
            /\ SubSeq(fp[p].hooks, 1, 3) =
                  << "ensure_externally_managed", "ensure_sysconfig_patched",
                     "ensure_canonical_executables" >>

\* One fetch returned an installation it downloaded, another one that was
\* there already.
C7_Witness ==
    \E p, q \in Procs :
        /\ fp[p].result = "ok" /\ fp[p].path = "Fetched"
        /\ fp[q].result = "ok" /\ fp[q].path = "AlreadyAvailable"
        /\ Len(fp[q].hooks) >= 3

\* C8: fetch never returns the error of ensure_dylib_patched: after that hook
\* fails fetch goes on to query the interpreter and returns the installation
\* (or the error of the query); when any other hook fails fetch returns that
\* hook's error and no installation.
C8_DylibSoftOthersFatal ==
    \A p \in Procs :
        /\ fp[p].err # "ensure_dylib_patched"
        /\ "ensure_dylib_patched" \in fp[p].failed =>
              \/ fp[p].pc = "query"
              \/ fp[p].pc = "done" /\ fp[p].result = "ok"
              \/ fp[p].pc = "failed" /\ fp[p].err = "query"
        /\ \A hook \in fp[p].failed \ { "ensure_dylib_patched" } :
              fp[p].pc = "failed" /\ fp[p].result = "err" /\ fp[p].err = hook
        /\ fp[p].result = "ok" => fp[p].failed \subseteq { "ensure_dylib_patched" }

\* One fetch returned an installation although ensure_dylib_patched failed,
\* another returned the error of another hook.
C8_Witness ==
    \E p, q \in Procs :
        /\ fp[p].result = "ok" /\ fp[p].failed = { "ensure_dylib_patched" }
        /\ fp[q].result = "err" /\ fp[q].err = "ensure_canonical_executables"

----------------------------------------------------------------------------
(* Properties of SpecFind.                                                 *)

\* C9: when find_or_download called fetch and fetch failed with
\* NoDownloadFound, it returns the error of find; when fetch failed with
\* another error it returns the error of fetch.
C9_OriginalErrorOnNoDownload ==
    fd.pc = "returned" /\ fd.fetch_calls = 1 /\ fd.fetch # "Ok" =>
        /\ fd.result = "Err"
        /\ fd.returned = IF fd.fetch = "NoDownloadFound"
                         THEN Err("find", fd.found)
                         ELSE Err("fetch", fd.fetch)

C9_Witness ==
    /\ fd.pc = "returned" /\ fd.fetch_calls = 1
    /\ fd.fetch = "NoDownloadFound"
    /\ fd.returned = Err("find", "DiscoveryNonCritical")

\* The conditions on find's error, the settings and the request.
DownloadWanted ==
    /\ fd.found \in { "MissingPython", "DiscoveryNonCritical" }
    /\ fd.allows_managed /\ fd.is_automatic /\ fd.is_online
    /\ fd.convertible

\* C10 as stated: find_or_download has called fetch exactly when find failed
\* with MissingPython or a non-critical discovery error, managed interpreters
\* are allowed, downloads are automatic, the client is online and the request
\* converts to a download request.
C10_FetchIffWanted ==
    fd.pc = "returned" => (fd.fetch_calls = 1 <=> DownloadWanted)

\* C10: find_or_download calls fetch exactly when those conditions hold and
\* filling the download request (request.fill()) succeeds as well; it never
\* calls fetch twice; and when find succeeds it returns the installation
\* without a fetch.
C10_FetchIffWantedAndFilled ==
    /\ fd.fetch_calls <= 1
    /\ fd.pc = "returned" =>
          /\ fd.fetch_calls = 1 <=> (DownloadWanted /\ fd.fill = "Ok")
          /\ fd.found = "Ok" => fd.result = "Ok" /\ fd.fetch_calls = 0
    /\ fd.pc = "fetch" => DownloadWanted /\ fd.fill = "Ok"

\* Every condition held and fetch was called.
C10_Witness ==
    /\ fd.pc = "returned" /\ fd.fetch_calls = 1
    /\ DownloadWanted /\ fd.fill = "Ok"

\* C11 as stated: an error of find that is neither MissingPython nor a
\* non-critical discovery error is returned as it is, and whenever find failed
\* and fetch was not called the error returned is the error of find.
C11_FindErrorUnlessFetched ==
    fd.pc = "returned" /\ fd.found # "Ok" =>
        /\ fd.found \notin { "MissingPython", "DiscoveryNonCritical" } =>
              fd.result = "Err" /\ fd.returned = Err("find", fd.found) /\ fd.fetch_calls = 0
        /\ fd.fetch_calls = 0 => fd.result = "Err" /\ fd.returned = Err("find", fd.found)

\* C11: an error of find that is neither MissingPython nor a non-critical
\* discovery error is returned as it is; and whenever find failed and fetch
\* was not called, the error returned is the error of find, unless filling
\* the download request failed, in which case it is the error of fill.
C11_FindErrorUnlessFilledOrFetched ==
    fd.pc = "returned" /\ fd.found # "Ok" =>
        /\ fd.found \notin { "MissingPython", "DiscoveryNonCritical" } =>
              fd.result = "Err" /\ fd.returned = Err("find", fd.found) /\ fd.fetch_calls = 0
        /\ fd.fetch_calls = 0 =>
              /\ fd.result = "Err"
              /\ fd.returned = IF fd.fill = "Err" THEN Err("fill", "fill")
                               ELSE Err("find", fd.found)

\* Downloads were enabled and find failed with a critical discovery error,
\* which came back.
C11_Witness ==
    /\ fd.pc = "returned" /\ fd.found = "DiscoveryCritical"
    /\ fd.allows_managed /\ fd.is_automatic /\ fd.is_online /\ fd.convertible
    /\ fd.returned = Err("find", "DiscoveryCritical")

----------------------------------------------------------------------------
(* Properties of SpecUpgrade.                                              *)

UpgradeDone == cmd.name = "upgrade" /\ cmd.pc = "done" /\ cmd.exit_code = 0

\* Every minor the upgrade was asked for is on the newest catalog patch, and
\* the upgrade installed and retargeted exactly the minors that were not.
UpgradedToLatest ==
    /\ cmd.request = "all" => cmd.targets = InstalledMinors
    /\ cmd.request # "all" => cmd.targets = { cmd.request }
    /\ \A m \in cmd.targets :
          <<m, catalog[m]>> \in installed /\ anchor[m] = catalog[m]
    /\ cmd.installed = { <<m, catalog[m]>> : m \in cmd.stale }
    /\ cmd.retargeted = cmd.stale

C13_OldPatchRemains ==
    /\ [][installed \subseteq installed']_vars
    /\ [](UpgradeDone =>
            /\ cmd.installed \subseteq installed
            /\ cmd.replaced \subseteq installed
            /\ cmd.installed \cap cmd.replaced = {}
            /\ { k[1] : k \in cmd.installed } = { k[1] : k \in cmd.replaced })

\* An upgrade moved a minor from one patch to another and both directories
\* are in the registry.
C13_Witness ==
    /\ UpgradeDone
    /\ \E old \in cmd.replaced, new \in cmd.installed :
          /\ old[1] = new[1] /\ old[2] < new[2]
          /\ anchor[new[1]] = new[2]
          /\ { old, new } \subseteq installed

\* C14: an upgrade that names a patch version exits with code 1, installs
\* nothing and retargets nothing, and the step that runs it changes nothing in
\* the registry; an upgrade of the minor that follows it ends with the minor
\* on the newest catalog patch, which it installed if it was not there.
C14_PatchRequestRejected ==
    /\ [](cmd.name = "upgrade" /\ cmd.patch # 0 =>
            /\ cmd.pc = "done" /\ cmd.exit_code = 1
            /\ cmd.installed = {} /\ cmd.retargeted = {} /\ cmd.targets = {})
    /\ [][cmd.pc = "running" /\ cmd'.pc = "done" /\ cmd.prev = 1 =>
            UpgradeDone' /\ UpgradedToLatest']_vars
    /\ [][cmd' # cmd /\ cmd'.name = "upgrade" /\ cmd'.patch # 0 =>
            UNCHANGED <<registryVars, venvVars, pin>>]_vars

\* The upgrade after a rejected one found the old patch and installed the
\* newest.
C14_Witness ==
    /\ UpgradeDone /\ cmd.prev = 1
    /\ cmd.request = "3.10" /\ cmd.replaced = { << "3.10", 1 >> }
    /\ cmd.installed = { << "3.10", catalog["3.10"] >> }

\* C15: when an upgrade finishes, every minor it was asked for (every
\* installed minor when no version is given) is on the newest catalog patch;
\* it installed and retargeted exactly the minors that were not, so an upgrade
\* run when all are on the newest patch exits with 0, installs nothing and
\* retargets no anchor.
C15_UpgradeToLatestIdempotent ==
    /\ [](cmd.name = "upgrade" /\ cmd.pc = "running" => cmd.targets \subseteq InstalledMinors)
    /\ [][cmd.pc = "running" /\ cmd'.pc = "done" => UpgradeDone' /\ UpgradedToLatest']_vars
    /\ [][cmd.pc = "running" /\ cmd.stale = {} => UNCHANGED registryVars]_vars

\* An upgrade without a version found both minors installed and upgraded
\* before, and did nothing.
C15_Witness ==
    /\ UpgradeDone /\ cmd.request = "all"
    /\ cmd.targets = Minors /\ cmd.stale = {}
    /\ cmd.installed = {} /\ cmd.retargeted = {}
    /\ \A m \in Minors : Cardinality(InstalledPatches(m)) >= 2

----------------------------------------------------------------------------
(* Properties of SpecNormalize.                                            *)

\* C16 as stated: is_normalized returns an error on a name exactly when
\* normalize does.
C16_SameVerdict ==
    nm.normalize.state # "none" /\ nm.is_normalized.state # "none" =>
        (nm.is_normalized.state = "Err" <=> nm.normalize.state = "Err")

\* The bytes at which is_normalized returns false at once: an uppercase
\* letter, `_`, `.`, or a `-` right after a `-`.
ReturnsFalseEarly(name) ==
    \E i \in 1..Len(name) :
        \/ name[i] \in { "A", "_", "." }
        \/ i > 1 /\ name[i] = "-" /\ name[i - 1] = "-"

\* C16: is_normalized returns an error only on names on which normalize
\* returns an error, and never returns true on such a name; on a name that
\* normalize rejects it returns false only if the name has an uppercase
\* letter, `_`, `.` or a doubled `-`.
C16_ErrorImpliesError ==
    nm.normalize.state # "none" /\ nm.is_normalized.state # "none" =>
        /\ nm.is_normalized.state = "Err" => nm.normalize.state = "Err"
        /\ nm.normalize.state = "Err" =>
              /\ nm.is_normalized # OkBool(TRUE)
              /\ nm.is_normalized = OkBool(FALSE) => ReturnsFalseEarly(nm.name)

\* normalize rejects `A!`, for which is_normalized returns false.
C16_Witness ==
    /\ nm.name = << "A", "!" >>
    /\ nm.normalize.state = "Err"
    /\ nm.is_normalized = OkBool(FALSE)

\* C17: on a name that normalize accepts, is_normalized returns true or
\* false, and true exactly when what normalize returns is the name itself.
C17_TrueIffUnchanged ==
    nm.normalize.state = "Ok" /\ nm.is_normalized.state # "none" =>
        /\ nm.is_normalized.state = "Ok"
        /\ nm.is_normalized.bool <=> nm.normalize.str = nm.name

\* `a--a`: normalize gives `a-a` and is_normalized false.
C17_Witness ==
    /\ nm.name = << "a", "-", "-", "a" >>
    /\ nm.normalize = Ok(<< "a", "-", "a" >>)
    /\ nm.is_normalized = OkBool(FALSE)

\* C18: normalize applied to what normalize returned succeeds and returns
\* the same.
C18_NormalizeIdempotent ==
    nm.again.state # "none" => nm.again.state = "Ok" /\ nm.again.str = nm.normalize.str

\* `A-_a` gives `a-a`, and `a-a` gives `a-a`.
C18_Witness ==
    /\ nm.name = << "A", "-", "_", "a" >>
    /\ nm.normalize.str = << "a", "-", "a" >>
    /\ nm.again = Ok(<< "a", "-", "a" >>)

\* C19: normalize, is_normalized and validate_and_normalize_ref each return
\* an error on the empty name, and no name they accept is empty.
C19_EmptyRejected ==
    nm.name = <<>> =>
        /\ nm.normalize.state \in { "none", "Err" }
        /\ nm.is_normalized.state \in { "none", "Err" }
        /\ nm.validate_and_normalize_ref.state \in { "none", "Err" }

\* The name with its letters in lowercase and every maximal run of `-`, `_`
\* and `.` replaced by one `-`, from the byte at i on.
RECURSIVE CollapseRuns(_, _)
CollapseRuns(name, i) ==
    IF i > Len(name) THEN <<>>
    ELSE IF name[i] \in { "-", "_", "." }
    THEN IF i > 1 /\ name[i - 1] \in { "-", "_", "." }
         THEN CollapseRuns(name, i + 1)
         ELSE << "-" >> \o CollapseRuns(name, i + 1)
    ELSE << (IF name[i] = "A" THEN "a" ELSE name[i]) >> \o CollapseRuns(name, i + 1)

\* Names that differ from the name in the case of the letters or in the
\* punctuation bytes only.
Respelled(name) ==
    { [i \in 1..Len(name) |-> IF name[i] = "a" THEN "A" ELSE name[i]],
      [i \in 1..Len(name) |-> IF name[i] \in { "-", "_", "." } THEN "_" ELSE name[i]],
      [i \in 1..Len(name) |-> IF name[i] \in { "-", "_", "." } THEN "." ELSE name[i]],
      [i \in 1..Len(name) |-> IF name[i] \in { "-", "_", "." } THEN "-" ELSE name[i]] }

\* C20: what validate_and_normalize_ref returns for a name it accepts is the
\* name in lowercase with every run of `-`, `_`, `.` replaced by one `-`: it
\* has only lowercase letters, digits and `-`, no `-` at either end and no
\* `--`, and the name spelled with other case or other punctuation gives the
\* same.
C20_LowercasedAndCollapsed ==
    LET out == nm.validate_and_normalize_ref.str
    IN  nm.validate_and_normalize_ref.state = "Ok" =>
            /\ out = CollapseRuns(nm.name, 1)
            /\ \A i \in 1..Len(out) : out[i] \in { "a", "1", "-" }
            /\ Len(out) > 0 => out[1] # "-" /\ out[Len(out)] # "-"
            /\ \A i \in 1..(Len(out) - 1) : ~(out[i] = "-" /\ out[i + 1] = "-")
            /\ \A other \in Respelled(nm.name) :
                  ValidateAndNormalizeRef(other) = nm.validate_and_normalize_ref

\* `A-_a` gives `a-a`.
C20_Witness ==
    /\ nm.name = << "A", "-", "_", "a" >>
    /\ nm.validate_and_normalize_ref = Ok(<< "a", "-", "a" >>)

\* A name with a byte that is no ASCII letter, digit, `-`, `_` or `.`, or
\* with one of `-`, `_`, `.` as its first or its last byte.
Malformed(name) ==
    \/ \E i \in 1..Len(name) : name[i] \notin { "a", "A", "1", "-", "_", "." }
    \/ Len(name) > 0 /\ name[1] \in { "-", "_", "." }
    \/ Len(name) > 0 /\ name[Len(name)] \in { "-", "_", "." }

\* C21 as stated: validate_and_normalize_ref and is_normalized both return
\* an error on every malformed name.
C21_BothRejectMalformed ==
    Malformed(nm.name) =>
        /\ nm.validate_and_normalize_ref.state \in { "none", "Err" }
        /\ nm.is_normalized.state \in { "none", "Err" }

\* C21: validate_and_normalize_ref returns an error on every malformed name,
\* the error carrying the name; is_normalized returns an error or false on
\* it, never true.
C21_ValidateRejectsMalformed ==
    Malformed(nm.name) =>
        /\ nm.validate_and_normalize_ref.state # "none" =>
              nm.validate_and_normalize_ref = InvalidNameError(nm.name)
        /\ nm.is_normalized # OkBool(TRUE)

\* `_a` starts with punctuation: validate_and_normalize_ref rejects it and
\* is_normalized returns false.
C21_Witness ==
    /\ nm.name = << "_", "a" >>
    /\ nm.validate_and_normalize_ref.state = "Err"
    /\ nm.is_normalized = OkBool(FALSE)

\* C36: validate_and_normalize_ref returns on a name what normalize returns
\* on it: the same error, or the same string.
C36_SameAsNormalize ==
    nm.validate_and_normalize_ref.state # "none" /\ nm.normalize.state # "none" =>
        nm.validate_and_normalize_ref = nm.normalize

\* `a-1` is normalized: the fast path returns the name, as normalize does.
C36_Witness ==
    /\ nm.name = << "a", "-", "1" >>
    /\ nm.is_normalized = OkBool(TRUE)
    /\ nm.validate_and_normalize_ref = Ok(<< "a", "-", "1" >>)
    /\ nm.normalize = Ok(<< "a", "-", "1" >>)


-----------------------------------------------------------------------------
\* Installation keys (installation.rs): PythonInstallationKey, its string
\* form and its order.  A string is a sequence of tokens: the separators
\* "-", "+" and ".", and the words between them.

\* The most '-'-separated fields of a string given to from_str.
MaxFields == 6

\* The decimal spellings of the numbers of the scenarios ("08": a spelling
\* with a leading zero).
Decimal == ("0" :> 0) @@ ("1" :> 1) @@ ("3" :> 3) @@ ("8" :> 8) @@ ("08" :> 8)
           @@ ("10" :> 10) @@ ("13" :> 13) @@ ("17" :> 17)

IsNumeral(t) == t \in DOMAIN Decimal

\* A u8 formatted with {}.
U8ToString(n) == CHOOSE t \in DOMAIN Decimal : Decimal[t] = n /\ t # "08"

\* The known implementations, in declaration order.
ImplementationNames == << "cpython", "pypy", "graalpy" >>

\* LenientImplementationName::from(&str): a known name, or the raw token.
LenientImplementationNameFrom(field) ==
    IF Len(field) = 1 /\ \E i \in 1..Len(ImplementationNames) : ImplementationNames[i] = field[1]
    THEN [known |-> TRUE, name |-> field]
    ELSE [known |-> FALSE, name |-> field]

OsNames == { "linux", "macos" }
ArchNames == { "aarch64", "x86_64" }
LibcNames == { "gnu", "none" }
VariantNames == << "default", "freethreaded" >>
PrereleaseKinds == << "a", "b", "rc" >>

\* Os::from_str, Arch::from_str, Libc::from_str, PythonVariant::from_str: Some
\* of the value a known token names, None (an error) for anything else.
TokenFromStr(field, names) ==
    IF Len(field) = 1 /\ field[1] \in names THEN << field[1] >> ELSE <<>>

\* Prerelease::to_string: the kind, then the number.
PrereleaseToString(pre) == << pre.kind, U8ToString(pre.number) >>

\* The release of a version string: two or three numbers separated by ".".
ReleaseFromStr(s) ==
    IF Len(s) = 3 /\ IsNumeral(s[1]) /\ s[2] = "." /\ IsNumeral(s[3])
    THEN << << Decimal[s[1]], Decimal[s[3]] >> >>
    ELSE IF /\ Len(s) = 5 /\ IsNumeral(s[1]) /\ s[2] = "." /\ IsNumeral(s[3])
            /\ s[4] = "." /\ IsNumeral(s[5])
    THEN << << Decimal[s[1]], Decimal[s[3]], Decimal[s[5]] >> >>
    ELSE <<>>

\* PythonVersion::from_str: M.m[.p][pre]; None for anything else.
PythonVersionFromStr(s) ==
    LET n == Len(s)
        hasPre == /\ n >= 2 /\ IsNumeral(s[n])
                  /\ \E i \in 1..Len(PrereleaseKinds) : PrereleaseKinds[i] = s[n - 1]
        release == ReleaseFromStr(IF hasPre THEN SubSeq(s, 1, n - 2) ELSE s)
    IN  IF release = <<>> THEN <<>>
        ELSE << [release |-> release[1],
                 pre |-> IF hasPre
                         THEN << [kind |-> s[n - 1], number |-> Decimal[s[n]]] >>
                         ELSE <<>>] >>

\* PythonVersion::patch: the third number of the release, if any.
VersionPatch(version) ==
    IF Len(version.release) >= 3 THEN << version.release[3] >> ELSE <<>>

\* Option::unwrap_or_default on a u8.
UnwrapOrOne(option) == IF option = <<>> THEN 1 ELSE option[1]
UnwrapOrDefault(option) == IF option = <<>> THEN 0 ELSE option[1]

\* PythonInstallationKey::new_from_version.
new_from_version(implementation, version, os, arch, libc, variant) ==
    [implementation |-> implementation,
     major |-> version.release[1],
     minor |-> version.release[2],
     patch |-> UnwrapOrDefault(VersionPatch(version)),
     prerelease |-> version.pre,
     os |-> os, arch |-> arch, libc |-> libc, variant |-> variant]

\* The variant part of the string form: nothing for Default, "+" and the
\* variant for Freethreaded.
VariantPartNever(variant) == <<>>
VariantPart(variant) ==
    IF variant = "default" THEN <<>> ELSE << "+", variant >>

\* The version part of the string form, and of version():
\* {major}.{minor}.{patch}{prerelease}.
VersionPart(k) ==
    << U8ToString(k.major), ".", U8ToString(k.minor), ".", U8ToString(k.patch) >>
    \o (IF k.prerelease = <<>> THEN <<>> ELSE PrereleaseToString(k.prerelease[1]))

\* impl Display for PythonInstallationKey.
Display(k) ==
    k.implementation.name \o << "-" >> \o VersionPart(k) \o VariantPart(k.variant)
    \o << "-", k.os, "-", k.arch, "-", k.libc >>

\* str::split: the pieces between the occurrences of the separator.
RECURSIVE Split(_, _)
Split(s, sep) ==
    IF \A i \in 1..Len(s) : s[i] # sep THEN << s >>
    ELSE LET i == CHOOSE i \in 1..Len(s) :
                      s[i] = sep /\ \A j \in 1..(i - 1) : s[j] # sep
         IN  << SubSeq(s, 1, i - 1) >> \o Split(SubSeq(s, i + 1, Len(s)), sep)

\* str::split_once: the pieces around the first occurrence of the separator.
SplitOnce(s, sep) ==
    IF \A i \in 1..Len(s) : s[i] # sep THEN <<>>
    ELSE LET i == CHOOSE i \in 1..Len(s) :
                      s[i] = sep /\ \A j \in 1..(i - 1) : s[j] # sep
         IN  << << SubSeq(s, 1, i - 1), SubSeq(s, i + 1, Len(s)) >> >>

\* The slice pattern [implementation, version, os, arch, libc].
SliceMatchesFiveOrMore(parts) == Len(parts) >= 5
SliceMatches(parts) == Len(parts) = 5

ParseOk(k) == [state |-> "Ok", key |-> k, text |-> <<>>, message |-> ""]

\* PythonInstallationKeyError::ParseError(key, message).
ParseError(key, message) ==
    [state |-> "Err", key |-> NoKey, text |-> key, message |-> message]

\* impl FromStr for PythonInstallationKey.
FromStr(key) ==
    LET parts == Split(key, "-") IN
    IF ~SliceMatches(parts)
    THEN ParseError(key, "not enough '-'-separated values")
    ELSE
    LET implementation == LenientImplementationNameFrom(parts[1])
        os == TokenFromStr(parts[3], OsNames)
        arch == TokenFromStr(parts[4], ArchNames)
        libc == TokenFromStr(parts[5], LibcNames)
        split == SplitOnce(parts[2], "+")
        variant == IF split = <<>> THEN << "default" >>
                   ELSE TokenFromStr(split[1][2], { "default", "freethreaded" })
        version == PythonVersionFromStr(IF split = <<>> THEN parts[2] ELSE split[1][1])
    IN  IF os = <<>> THEN ParseError(key, "invalid OS")
        ELSE IF arch = <<>> THEN ParseError(key, "invalid architecture")
        ELSE IF libc = <<>> THEN ParseError(key, "invalid libc")
        ELSE IF variant = <<>> THEN ParseError(key, "invalid Python variant")
        ELSE IF version = <<>> THEN ParseError(key, "invalid Python version")
        ELSE ParseOk(new_from_version(implementation, version[1],
                                      os[1], arch[1], libc[1], variant[1]))

\* Ordering: cmp of two numbers, reverse, then_with.
CmpNat(x, y) == IF x < y THEN "Less" ELSE IF x > y THEN "Greater" ELSE "Equal"
Reverse(o) == IF o = "Less" THEN "Greater" ELSE IF o = "Greater" THEN "Less" ELSE o
ThenWithLater(first, later) == IF later # "Equal" THEN later ELSE first
ThenWith(first, later) == IF first # "Equal" THEN first ELSE later

\* The position of a value in a sequence that lists each value once.
IndexIn(seq, x) == CHOOSE i \in 1..Len(seq) : seq[i] = x

\* The words of the scenarios in the order of str::cmp (bytewise).
Words == << "aarch64", "cpython", "gnu", "jython", "linux", "macos", "none",
            "pypy", "x86_64" >>
CmpString(x, y) == CmpNat(IndexIn(Words, x), IndexIn(Words, y))

\* LenientImplementationName::cmp: Known before Unknown; known names in
\* declaration order, raw tokens as strings.
CmpImplementation(x, y) ==
    IF x.known /\ y.known
    THEN CmpNat(IndexIn(ImplementationNames, x.name[1]),
                IndexIn(ImplementationNames, y.name[1]))
    ELSE IF x.known THEN "Less"
    ELSE IF y.known THEN "Greater"
    ELSE CmpString(x.name[1], y.name[1])

\* Prerelease order: by kind (a, b, rc), then by number; a version with a
\* prerelease is before the same release without one.
CmpPre(x, y) ==
    IF x = <<>> /\ y = <<>> THEN "Equal"
    ELSE IF x = <<>> THEN "Greater"
    ELSE IF y = <<>> THEN "Less"
    ELSE ThenWith(CmpNat(IndexIn(PrereleaseKinds, x[1].kind),
                         IndexIn(PrereleaseKinds, y[1].kind)),
                  CmpNat(x[1].number, y[1].number))

\* PythonVersion::cmp: the release number by number, then the prerelease.
CmpVersion(v, w) ==
    ThenWith(CmpNat(v.release[1], w.release[1]),
    ThenWith(CmpNat(v.release[2], w.release[2]),
    ThenWith(CmpNat(UnwrapOrDefault(VersionPatch(v)), UnwrapOrDefault(VersionPatch(w))),
             CmpPre(v.pre, w.pre))))

\* PythonVariant::cmp: declaration order (Default, Freethreaded).
CmpVariant(x, y) == CmpNat(IndexIn(VariantNames, x), IndexIn(VariantNames, y))

\* Faulty variant: the prerelease is left out of the version.
versionWithoutPrerelease(k) ==
    [PythonVersionFromStr(VersionPart(k))[1] EXCEPT !.pre = <<>>]

\* PythonInstallationKey::version: the version parsed from its formatting.
version(k) == PythonVersionFromStr(VersionPart(k))[1]

\* impl Ord for PythonInstallationKey.
cmp(self, other) ==
    ThenWith(CmpImplementation(self.implementation, other.implementation),
    ThenWith(CmpVersion(version(self), version(other)),
    ThenWith(CmpString(self.os, other.os),
    ThenWith(CmpString(self.arch, other.arch),
    ThenWith(CmpString(self.libc, other.libc),
             Reverse(CmpVariant(self.variant, other.variant)))))))


\* The keys given to Display: known and free-form implementations, versions
\* with and without a patch of 0 and a prerelease, both variants.
Implementations == { [known |-> TRUE, name |-> << "cpython" >>],
                     [known |-> TRUE, name |-> << "pypy" >>],
                     [known |-> FALSE, name |-> << "jython" >>] }
Prereleases == { <<>>, << [kind |-> "rc", number |-> 1] >> }
Keys ==
    [implementation : Implementations, major : { 3 }, minor : { 10, 13 },
     patch : { 0, 8, 17 }, prerelease : Prereleases,
     os : OsNames, arch : ArchNames, libc : LibcNames,
     variant : { "default", "freethreaded" }]

\* The keys given to cmp, in pairs.
OrderedKeys ==
    { k \in Keys : /\ k.implementation.known
                   /\ <<k.minor, k.patch, k.prerelease>> \in
                          { <<10, 8, <<>> >>, <<10, 17, <<>> >>,
                            <<13, 0, <<>> >>, <<13, 0, << [kind |-> "rc", number |-> 1] >> >> } }

\* The fields of the strings given to from_str, by position: well-formed
\* and malformed ones.
FieldChoices ==
    << { << "cpython" >>, << "jython" >> },
       { << "3", ".", "10" >>,
         << "3", ".", "10", ".", "08" >>,
         << "3", ".", "13", "rc", "1" >>,
         << "3", ".", "13", ".", "0", "rc", "1" >>,
         << "3", ".", "10", ".", "8", "+", "freethreaded" >>,
         << "3", ".", "10", "+", "debug" >>,
         << "three" >>,
         << "three", "+", "debug" >> },
       { << "linux" >>, << "plan9" >> },
       { << "x86_64" >>, << "z80" >> },
       { << "gnu" >>, << "bionic" >> } >>

FieldsAt(i) == IF i <= Len(FieldChoices) THEN FieldChoices[i] ELSE { << "extra" >> }

\* The fields joined by "-".
RECURSIVE Join(_)
Join(fields) ==
    IF Len(fields) = 1 THEN fields[1]
    ELSE fields[1] \o << "-" >> \o Join(Tail(fields))

\* The lists of n fields, each field one of the choices of its position.
RECURSIVE FieldLists(_)
FieldLists(n) ==
    IF n = 0 THEN { <<>> }
    ELSE { Append(fields, field) : fields \in FieldLists(n - 1), field \in FieldsAt(n) }

Texts == UNION { { Join(fields) : fields \in FieldLists(n) } : n \in 1..MaxFields }

InitKeyFunctions ==
    /\ InitRegistry /\ InitNoVenv /\ InitFetch /\ InitFind /\ InitCommand /\ InitName
    /\ \/ \E k \in Keys : ky = [NoKeys EXCEPT !.given = "key", !.a = k]
       \/ \E text \in Texts : ky = [NoKeys EXCEPT !.given = "text", !.text = text]

\* k.to_string()
KeyToString ==
    /\ ky.given = "key" /\ ky.to_string = <<>>
    /\ ky' = [ky EXCEPT !.to_string = Display(ky.a)]

\* s.parse::<PythonInstallationKey>(), of the given string or of the string
\* form of the given key.
KeyFromStr ==
    /\ ky.from_str.state = "none"
    /\ \/ ky.given = "text" /\ ky' = [ky EXCEPT !.from_str = FromStr(ky.text)]
       \/ /\ ky.given = "key" /\ ky.to_string # <<>>
          /\ ky' = [ky EXCEPT !.from_str = FromStr(ky.to_string)]

\* The parsed key formatted.
KeyToStringAgain ==
    /\ ky.from_str.state = "Ok" /\ ky.again = <<>>
    /\ ky' = [ky EXCEPT !.again = Display(ky.from_str.key)]

\* The formatted string parsed.
KeyFromStrAgain ==
    /\ ky.again # <<>> /\ ky.reparsed.state = "none"
    /\ ky' = [ky EXCEPT !.reparsed = FromStr(ky.again)]

NextKey ==
    \/ KeyToString /\ UNCHANGED <<registryVars, venvVars, fetchVars, findVars, commandVars, nameVars>>
    \/ KeyFromStr /\ UNCHANGED <<registryVars, venvVars, fetchVars, findVars, commandVars, nameVars>>
    \/ KeyToStringAgain /\ UNCHANGED <<registryVars, venvVars, fetchVars, findVars, commandVars, nameVars>>
    \/ KeyFromStrAgain /\ UNCHANGED <<registryVars, venvVars, fetchVars, findVars, commandVars, nameVars>>

SpecKey == InitKeyFunctions /\ [][NextKey]_vars

InitKeyOrder ==
    /\ InitRegistry /\ InitNoVenv /\ InitFetch /\ InitFind /\ InitCommand /\ InitName
    /\ \E a \in OrderedKeys, b \in OrderedKeys :
           ky = [NoKeys EXCEPT !.given = "pair", !.a = a, !.b = b]

\* a.cmp(&b)
KeyCmp ==
    /\ ky.given = "pair" /\ ky.cmp = "none"
    /\ ky' = [ky EXCEPT !.cmp = cmp(ky.a, ky.b)]

\* b.cmp(&a)
KeyCmpBack ==
    /\ ky.given = "pair" /\ ky.cmp # "none" /\ ky.cmp_back = "none"
    /\ ky' = [ky EXCEPT !.cmp_back = cmp(ky.b, ky.a)]

NextKeyOrder ==
    \/ KeyCmp /\ UNCHANGED <<registryVars, venvVars, fetchVars, findVars, commandVars, nameVars>>
    \/ KeyCmpBack /\ UNCHANGED <<registryVars, venvVars, fetchVars, findVars, commandVars, nameVars>>

SpecKeyOrder == InitKeyOrder /\ [][NextKeyOrder]_vars

\* C22: a valid key's string form parses, and parses to the key itself.
C22_RoundTrip ==
    (ky.given = "key" /\ ky.from_str.state # "none") => ky.from_str = ParseOk(ky.a)

C22_Witness ==
    /\ ky.given = "key"
    /\ ky.a.implementation = [known |-> FALSE, name |-> << "jython" >>]
    /\ ky.a.patch = 0 /\ ky.a.prerelease # <<>> /\ ky.a.variant = "freethreaded"
    /\ ky.to_string = << "jython", "-", "3", ".", "13", ".", "0", "rc", "1", "+",
                         "freethreaded", "-", "macos", "-", "aarch64", "-", "none" >>
    /\ ky.from_str.state = "Ok"


\* Two keys that differ in the variant only.
SameButVariant(a, b) ==
    /\ a.variant # b.variant
    /\ [a EXCEPT !.variant = b.variant] = b

\* C23: of two keys equal in everything but the variant, the one with the
\* default variant is less than the freethreaded one.
C23_DefaultBeforeFreethreaded ==
    (/\ ky.given = "pair" /\ ky.cmp # "none"
     /\ SameButVariant(ky.a, ky.b) /\ ky.a.variant = "default") => ky.cmp = "Less"

\* The release and prerelease of a key as numbers: a final release counts
\* as the greatest prerelease.
VersionNumbers(k) ==
    << k.major, k.minor, k.patch,
       IF k.prerelease = <<>> THEN Len(PrereleaseKinds) + 1
       ELSE IndexIn(PrereleaseKinds, k.prerelease[1].kind),
       IF k.prerelease = <<>> THEN 0 ELSE k.prerelease[1].number >>

\* The first position where two sequences of the same length differ
\* (0: nowhere).
FirstDifference(x, y) ==
    IF x = y THEN 0
    ELSE CHOOSE i \in 1..Len(x) : x[i] # y[i] /\ \A j \in 1..(i - 1) : x[j] = y[j]

\* C24: the order is lexicographic over implementation, version (number by
\* number), os, arch, libc and variant, in this significance; a CPython key
\* is before a PyPy key whatever the versions, and 3.10.8 is before 3.10.17.
C24_Lexicographic ==
    (ky.given = "pair" /\ ky.cmp # "none") =>
        LET a == ky.a
            b == ky.b
            va == VersionNumbers(a)
            vb == VersionNumbers(b)
            d == FirstDifference(va, vb)
        IN  /\ a.implementation # b.implementation =>
                  ky.cmp = CmpImplementation(a.implementation, b.implementation)
            /\ (a.implementation.name = << "cpython" >> /\ b.implementation.name = << "pypy" >>)
                  => ky.cmp = "Less"
            /\ (a.implementation = b.implementation /\ d # 0) =>
                  ky.cmp = CmpNat(va[d], vb[d])
            /\ (a.implementation = b.implementation /\ d = 0 /\ a.os # b.os) =>
                  ky.cmp = CmpString(a.os, b.os)
            /\ (a.implementation = b.implementation /\ d = 0 /\ a.os = b.os
                   /\ a.arch # b.arch) => ky.cmp = CmpString(a.arch, b.arch)
            /\ (a.implementation = b.implementation /\ d = 0 /\ a.os = b.os
                   /\ a.arch = b.arch /\ a.libc # b.libc) =>
                  ky.cmp = CmpString(a.libc, b.libc)
            /\ (a.implementation = b.implementation /\ d = 0 /\ a.os = b.os
                   /\ a.arch = b.arch /\ a.libc = b.libc) =>
                  (ky.cmp = "Equal" <=> a.variant = b.variant)
            /\ (a.implementation = b.implementation /\ a.minor = 10 /\ b.minor = 10
                   /\ a.patch = 8 /\ b.patch = 17) => ky.cmp = "Less"

C24_Witness ==
    /\ ky.given = "pair"
    /\ ky.a.implementation.name = << "cpython" >> /\ ky.a.minor = 13
    /\ ky.a.os = "macos" /\ ky.a.variant = "freethreaded"
    /\ ky.b.implementation.name = << "pypy" >> /\ ky.b.minor = 10 /\ ky.b.patch = 8
    /\ ky.b.os = "linux" /\ ky.b.variant = "default"
    /\ ky.cmp = "Less" /\ ky.cmp_back = "Greater"

\* C37: a.cmp(&b) is Equal exactly when a == b (all fields equal); b.cmp(&a)
\* is its reverse; and with any third key c, a < b and b <= c give a < c,
\* and a equal to b gives a and b the same comparison with c.
C37_TotalOrder ==
    (ky.given = "pair" /\ ky.cmp # "none") =>
        /\ ky.cmp \in { "Less", "Equal", "Greater" }
        /\ ky.cmp = "Equal" <=> ky.a = ky.b
        /\ ky.cmp_back # "none" => ky.cmp_back = Reverse(ky.cmp)
        /\ \A c \in OrderedKeys :
              /\ (ky.cmp = "Less" /\ cmp(ky.b, c) # "Greater") => cmp(ky.a, c) = "Less"
              /\ ky.cmp = "Equal" => cmp(ky.a, c) = cmp(ky.b, c)

\* 3.13.0rc1 (default) is before 3.13.0+freethreaded, and the other way
\* round the comparison is Greater.
C37_Witness ==
    /\ ky.given = "pair"
    /\ ky.a.minor = 13 /\ ky.a.prerelease # <<>> /\ ky.a.variant = "default"
    /\ ky.b.minor = 13 /\ ky.b.prerelease = <<>> /\ ky.b.variant = "freethreaded"
    /\ ky.a.implementation = ky.b.implementation
    /\ ky.cmp = "Less" /\ ky.cmp_back = "Greater"


\* The number of '-'-separated fields of a string.
FieldCount(text) == Cardinality({ i \in 1..Len(text) : text[i] = "-" }) + 1

\* The messages that name a field of a five-field string that is not valid:
\* an os, arch or libc that is not a known name, a variant after "+" that
\* is not a variant, a version that is not M.m[.p][pre].
InvalidFieldMessages(text) ==
    LET parts == Split(text, "-")
        plus == { i \in 1..Len(parts[2]) : parts[2][i] = "+" }
        first == CHOOSE i \in plus : \A j \in plus : i <= j
        ver == IF plus = {} THEN parts[2] ELSE SubSeq(parts[2], 1, first - 1)
        var == IF plus = {} THEN << "default" >>
               ELSE SubSeq(parts[2], first + 1, Len(parts[2]))
    IN  { m \in { "invalid OS", "invalid architecture", "invalid libc",
                  "invalid Python variant", "invalid Python version" } :
            \/ m = "invalid OS" /\ parts[3] \notin { << n >> : n \in OsNames }
            \/ m = "invalid architecture" /\ parts[4] \notin { << n >> : n \in ArchNames }
            \/ m = "invalid libc" /\ parts[5] \notin { << n >> : n \in LibcNames }
            \/ m = "invalid Python variant"
                  /\ var \notin { << "default" >>, << "freethreaded" >> }
            \/ m = "invalid Python version" /\ PythonVersionFromStr(ver) = <<>> }

\* C25: from_str succeeds only on five fields; on fewer or more it returns
\* a ParseError carrying the string, and on an invalid os, arch, libc,
\* variant or version a ParseError carrying the string and naming an invalid
\* field.
C25_ParseErrors ==
    (ky.given = "text" /\ ky.from_str.state # "none") =>
        /\ ky.from_str.state = "Ok" => FieldCount(ky.text) = 5
        /\ FieldCount(ky.text) # 5 =>
              ky.from_str.state = "Err" /\ ky.from_str.text = ky.text
        /\ (FieldCount(ky.text) = 5 /\ InvalidFieldMessages(ky.text) # {}) =>
              /\ ky.from_str.state = "Err" /\ ky.from_str.text = ky.text
              /\ ky.from_str.message \in InvalidFieldMessages(ky.text)

C25_Witness ==
    /\ ky.text = << "jython", "-", "3", ".", "10", ".", "08", "-", "linux", "-",
                    "x86_64", "-", "gnu", "-", "extra" >>
    /\ ky.from_str.state = "Err" /\ ky.from_str.text = ky.text

\* The version of a five-field string is M.m, with or without a prerelease
\* and a variant.
NoPatchGiven(text) ==
    LET field == Split(text, "-")[2] IN
    /\ Len(field) >= 3 /\ field[2] = "."
    /\ Len(field) = 3 \/ field[4] # "."

\* C26: a key always has a patch: a string with the version M.m parses to
\* patch 0, the parsed key prints M.m.0, and the printed string parses back
\* to the same key, so printing after parsing changes it no more.
C26_PatchAlwaysPresent ==
    (ky.given = "text" /\ ky.from_str.state = "Ok") =>
        /\ NoPatchGiven(ky.text) => ky.from_str.key.patch = 0
        /\ (NoPatchGiven(ky.text) /\ ky.again # <<>>) =>
              SubSeq(Split(ky.again, "-")[2], 4, 5) = << ".", "0" >>
        /\ ky.reparsed.state # "none" =>
              /\ ky.reparsed.state = "Ok"
              /\ Display(ky.reparsed.key) = ky.again

C26_Witness ==
    /\ ky.text = << "cpython", "-", "3", ".", "10", "-", "linux", "-", "x86_64", "-", "gnu" >>
    /\ ky.from_str.state = "Ok" /\ ky.from_str.key.patch = 0
    /\ ky.again = << "cpython", "-", "3", ".", "10", ".", "0", "-", "linux", "-",
                     "x86_64", "-", "gnu" >>
    /\ ky.reparsed.state = "Ok"


-----------------------------------------------------------------------------
(* Properties of SpecCreate: the target create is called on.                *)

\* The target holds something.
NonEmptyDir(f) == f["."].kind = "dir" /\ \E e \in Entries \ {"."} : Exists(f, e)

\* The targets the claim names as fatal: a regular file, and a non-empty
\* directory without a pyvenv.cfg file when allow_existing is not set.
FatalTarget(f, allow_existing) ==
    \/ f["."].kind = "file"
    \/ NonEmptyDir(f) /\ f["pyvenv.cfg"].kind # "file" /\ ~allow_existing

\* C27: a create called on a regular file, or on a non-empty directory
\* without pyvenv.cfg and without allow_existing, changes nothing under the
\* target at any of its steps and returns an error from the validation.
C27_FatalTargetUntouched ==
    [][(cr.pc \in { "base", "validate" } /\ FatalTarget(fs, cr.allow_existing)) =>
          /\ fs' = fs
          /\ cr'.pc \in { "validate", "failed" }
          /\ cr.pc = "validate" => cr'.pc = "failed"]_vars

C27_Witness ==
    /\ cr.pc = "failed" /\ cr.err = "AlreadyExists" /\ ~cr.allow_existing
    /\ fs["."].kind = "dir" /\ fs["other"] = FileC("")
    /\ \A e \in Entries \ { ".", "other" } : ~Exists(fs, e)

\* create's validation lets the target pass.
Accepts == cr.pc = "validate" /\ cr'.pc \notin { "validate", "failed" }
\* create's validation refuses the target.
Refuses == cr.pc = "validate" /\ cr'.pc = "failed" /\ cr'.err = "AlreadyExists"

\* C28 as stated: a target is accepted only if it does not exist, is an
\* empty directory, or is a venv and allow_existing is set.
C28_AcceptsOnly ==
    [][Accepts =>
          \/ fs["."].kind = "absent"
          \/ fs["."].kind = "dir" /\ ~NonEmptyDir(fs)
          \/ fs["."].kind = "dir" /\ fs["pyvenv.cfg"].kind = "file" /\ cr.allow_existing]_vars

\* C28: a target is accepted exactly if it does not exist, is an empty
\* directory, is any directory when allow_existing is set, or holds a
\* pyvenv.cfg file when allow_existing is not set (create then removes the
\* directory first); anything else is refused.
C28_AcceptsExactly ==
    [][LET accepted ==
               \/ fs["."].kind = "absent"
               \/ fs["."].kind = "dir" /\ ~NonEmptyDir(fs)
               \/ fs["."].kind = "dir" /\ cr.allow_existing
               \/ fs["."].kind = "dir" /\ fs["pyvenv.cfg"].kind = "file" /\ ~cr.allow_existing
       IN  /\ Accepts => accepted
           /\ Refuses => ~accepted
           /\ (Accepts /\ NonEmptyDir(fs) /\ ~cr.allow_existing) => cr'.pc = "remove_dir_all"]_vars

C28_Witness ==
    /\ cr.calls = 2 /\ ~cr.allow_existing /\ cr.pc = "remove_dir_all"
    /\ fs["pyvenv.cfg"].kind = "file" /\ fs["."].kind = "dir"

\* C29: after a first create that succeeds with system_site_packages
\* false, the target holds pyvenv.cfg with the keys home, implementation,
\* uv, version_info and include-system-site-packages (false), the scripts
\* directory with the python link, CACHEDIR.TAG, a .gitignore of "*", and in
\* site-packages _virtualenv.py and a _virtualenv.pth that imports it.
C29_Layout ==
    (cr.pc = "done" /\ cr.calls = 1 /\ ~cr.system_site_packages) =>
        /\ fs["pyvenv.cfg"].kind = "file"
        /\ SubSeq(fs["pyvenv.cfg"].cfg.keys, 1, 5) =
              << "home", "implementation", "uv", "version_info",
                 "include-system-site-packages" >>
        /\ fs["pyvenv.cfg"].cfg.include_system_site_packages = "false"
        /\ fs["bin"].kind = "dir" /\ fs["bin/python"].kind = "symlink"
        /\ fs["CACHEDIR.TAG"].kind = "file"
        /\ fs[".gitignore"] = FileC("*")
        /\ fs["site-packages"].kind = "dir"
        /\ fs["_virtualenv.py"].kind = "file"
        /\ fs["_virtualenv.pth"] = FileC("import _virtualenv")

C29_Witness ==
    /\ cr.pc = "done" /\ cr.calls = 1 /\ ~cr.system_site_packages
    /\ ~cr.allow_existing /\ ~Exists(fs, "other")
    /\ fs["pyvenv.cfg"].cfg.include_system_site_packages = "false"
    /\ fs["_virtualenv.pth"] = FileC("import _virtualenv")

\* C30: a create without allow_existing on a directory with a pyvenv.cfg
\* file writes nothing before it has removed every entry of the directory;
\* a create with allow_existing on such a directory removes no entry and
\* leaves what it does not write as it was.
C30_ExistingVenv ==
    [][/\ (cr.pc = "validate" /\ fs["."].kind = "dir" /\ fs["pyvenv.cfg"].kind = "file"
              /\ ~cr.allow_existing) =>
             /\ fs' = fs
             /\ cr'.pc \in { "remove_dir_all", "failed" }
       /\ (cr.pc = "remove_dir_all" /\ cr'.pc # "failed") =>
             /\ cr'.pc = "create_dir_all"
             /\ \A e \in Entries : ~Exists(fs', e)
       /\ (cr.pc = "create_dir_all" /\ cr'.pc # "failed") =>
             \A e \in Entries \ {"."} : ~Exists(fs', e)
       /\ (~Returned(cr) /\ cr.allow_existing /\ fs["."].kind = "dir") =>
             /\ \A e \in Entries : Exists(fs, e) => Exists(fs', e)
             /\ fs'["other"] = fs["other"]
             /\ cr'.pc # "remove_dir_all"]_vars

C30_Witness ==
    /\ cr.calls = 2 /\ ~cr.allow_existing /\ cr.pc = "create_dir_all"
    /\ \A e \in Entries : ~Exists(fs, e)


\* Two calls of create with the same arguments but allow_existing.
SameArguments(c, d) ==
    /\ c.interpreter = d.interpreter /\ c.prompt = d.prompt
    /\ c.system_site_packages = d.system_site_packages
    /\ c.relocatable = d.relocatable /\ c.seed = d.seed

\* C31: a create called with allow_existing and the arguments of the create
\* that has just built the target returns Ok and leaves every path of the
\* target, every link target included, as it was.
C31_CreateAgainSame ==
    [][(cr.pc = "done" /\ cr'.pc = "base" /\ cr'.allow_existing /\ SameArguments(cr, cr')) =>
          /\ RunCreate(cr', fs).c.pc = "done"
          /\ RunCreate(cr', fs).f = fs]_vars

C31_Witness ==
    /\ cr.calls = 2 /\ cr.pc = "done" /\ cr.allow_existing
    /\ fs["lib64"] = LinkC(RelPath(<<"lib">>))
    /\ fs["bin/python"].kind = "symlink"
    /\ RunCreate([cr EXCEPT !.pc = "base", !.i = 0], fs).f = fs


\* C32: `python` is a symlink to the executable target of the call, never
\* a relative one; every other name of the interpreter in the scripts
\* directory is a relative symlink to the name "python"; a first create
\* makes pythonM and pythonM.m, and the pypy and graalpy names for these
\* implementations only.
C32_AliasesThroughPython ==
    /\ \A e \in LinkEntries \ { "bin/python" } :
          Exists(fs, e) =>
              /\ fs[e].kind = "symlink"
              /\ fs[e].target = [base |-> "rel", dir |-> NoDir, tail |-> << "python" >>]
    /\ (cr.pc = "done" /\ Unix) =>
          /\ fs["bin/python"].kind = "symlink"
          /\ fs["bin/python"].target = cr.executable_target
          /\ fs["bin/python"].target.base \in { "registry", "system" }
          /\ Exists(fs, "bin/pythonM") /\ Exists(fs, "bin/pythonM.m")
          /\ cr.interpreter.implementation = "pypy" =>
                Exists(fs, "bin/pypyM") /\ Exists(fs, "bin/pypy")
          /\ cr.interpreter.implementation = "graalpy" => Exists(fs, "bin/graalpy")
    /\ (cr.pc = "done" /\ cr.calls = 1 /\ cr.interpreter.implementation = "cpython") =>
          \A e \in { "bin/pypyM", "bin/pypy", "bin/graalpy" } : ~Exists(fs, e)

C32_Witness ==
    /\ cr.pc = "done" /\ cr.interpreter.implementation = "pypy"
    /\ fs["bin/python"].target = cr.executable_target
    /\ \A e \in { "bin/pythonM", "bin/pythonM.m", "bin/pypyM", "bin/pypy" } :
          fs[e].target.tail = << "python" >> /\ fs[e].target.base = "rel"


\* create has written pyvenv.cfg in this call.
CfgWritten ==
    cr.pc \in { "site_packages", "lib64", "virtualenv_py", "virtualenv_pth", "done" }

\* The keys of a sequence that are in a set, in their order.
RECURSIVE Only(_, _)
Only(keys, set) ==
    IF keys = <<>> THEN <<>>
    ELSE (IF Head(keys) \in set THEN << Head(keys) >> ELSE <<>>) \o Only(Tail(keys), set)

-----------------------------------------------------------------------------
(* Properties of Spec: how the venv's interpreter was found.                *)

\* The interpreters a request for a patch of a minor finds.
PatchRequested ==
    UNION { Discover([minor |-> m, patch |-> p]) : m \in Minors, p \in Patches }

-----------------------------------------------------------------------------
(* Properties of SpecFetchFair.                                             *)

\* The process is between the acquisition of the lock and its return.
HoldsGuard(p) ==
    fp[p].pc \in { "from_request", "available", "download", "extract",
                   "extracting", "rename", "hooks", "query" }

\* C35: at most one fetch is past lock() and not yet returned; such a fetch
\* holds the lock; a fetch that has returned (Ok, any error, cancelled) does
\* not hold it; and a fetch that waits for the lock does not wait forever.
C35_Serialized ==
    /\ [](\A p \in Procs, q \in Procs : (HoldsGuard(p) /\ HoldsGuard(q)) => p = q)
    /\ [](\A p \in Procs : HoldsGuard(p) => lock = p)
    /\ [](\A p \in Procs : fp[p].pc \in { "done", "failed", "cancelled" } => lock # p)
    /\ \A p \in Procs : (fp[p].pc = "lock") ~> (fp[p].pc # "lock")

\* One fetch holds the lock after a hook failed in the other, which waited.
C35_Witness ==
    /\ fp[1].pc = "failed" /\ fp[1].err = "ensure_sysconfig_patched"
    /\ fp[2].pc = "download" /\ lock = 2


-----------------------------------------------------------------------------
(* Properties of SpecUpgrade: the frame of an upgrade.                      *)

\* C38: no step of `python upgrade M.m` changes, for another minor, the
\* anchor, the temporary link, the installed patches or the patch the anchor
\* resolves to; the files of the venv are left alone, and a venv on another
\* minor still runs the same patch.
C38_OtherMinorsUntouched ==
    [][(cmd.name = "upgrade" /\ cmd.pc = "running" /\ cmd.request \in Minors) =>
          /\ \A n \in Minors \ { cmd.request } :
                /\ anchor'[n] = anchor[n]
                /\ tmpLink'[n] = tmpLink[n]
                /\ { i \in installed' : i[1] = n } = { i \in installed : i[1] = n }
                /\ ResolveDir(LinkDir(n))' = ResolveDir(LinkDir(n))
          /\ fs' = fs
          /\ (cr.pc = "done" /\ cr.interpreter.minor # cmd.request) =>
                ProbeVenv' = ProbeVenv]_vars

\* `python upgrade 3.11` has retargeted 3.11 while 3.10, with a venv on it
\* and a newer patch in the catalog, is where it was.
C38_Witness ==
    /\ cmd.name = "upgrade" /\ cmd.pc = "done" /\ cmd.request = "3.11"
    /\ cmd.retargeted = { "3.11" }
    /\ anchor["3.11"] = catalog["3.11"]
    /\ anchor["3.10"] = 1 /\ catalog["3.10"] > 1
    /\ InstalledPatches("3.10") = { 1 }
    /\ cr.pc = "done" /\ cr.interpreter.minor = "3.10"

====
